---- MODULE Spec2Model ----
(***************************************************************************)
(* A model of the step-merger library: the STEP entry model, the STEP      *)
(* writer, the streaming entry readers and the merge driver.               *)
(*                                                                         *)
(* Text is modelled as a sequence of characters.  A character is a string  *)
(* of length one; a longer string inside such a sequence is an atom: it    *)
(* stands for a run of ordinary characters, none of which is a `#`, a      *)
(* quote, a `;`, a `=`, a `/`, a `*`, a blank or a leading digit.          *)
(***************************************************************************)
EXTENDS Integers, Sequences, FiniteSets, TLC

VARIABLES
    se_pc, se_entry, se_f, se_updated, se_refs,     \* entry model
    sw_pc, sw, sw_calls, sw_first,                  \* StepWriter
    assembly, load_references, resolver,            \* inputs of a merge
    merger, node_step_ids, reference_map,           \* StepMerger and merge
    m_pc, m_k, m_result,
    resolver_calls, imports, sink_faults,
    pl_pieces, pl_input, pl, pl_pc, pl_items,       \* plain reader, round trip
    pl_written, pl_reparsed,
    rd_input, rd_cuts, rd_reader, rd_pc, rd_items,  \* logos reader
    bi_inner, bi_it, bi_hist, bi_calls,             \* BufferedIterator
    fr_stream, fr_k, fr_finder, fr_roots, fr_pc           \* FindRootNodes

se_vars == <<se_pc, se_entry, se_f, se_updated, se_refs>>
sw_vars == <<sw_pc, sw, sw_calls, sw_first>>
mg_inputs == <<assembly, load_references, resolver>>
mg_vars == <<assembly, load_references, resolver, merger, node_step_ids, reference_map,
             m_pc, m_k, m_result, resolver_calls, imports, sink_faults>>

pl_vars == <<pl_pieces, pl_input, pl, pl_pc, pl_items, pl_written, pl_reparsed>>

rd_vars == <<rd_input, rd_cuts, rd_reader, rd_pc, rd_items>>

bi_vars == <<bi_inner, bi_it, bi_hist, bi_calls>>

fr_vars == <<fr_stream, fr_k, fr_finder, fr_roots, fr_pc>>

vars == <<se_vars, sw_vars, mg_vars, pl_vars, rd_vars, bi_vars, fr_vars>>

NotEntry == <<sw_vars, mg_vars, pl_vars, rd_vars, bi_vars, fr_vars>>
NotWriter == <<se_vars, mg_vars, pl_vars, rd_vars, bi_vars, fr_vars>>
NotMerge == <<se_vars, sw_vars, pl_vars, rd_vars, bi_vars, fr_vars>>
NotPlain == <<se_vars, sw_vars, mg_vars, rd_vars, bi_vars, fr_vars>>
NotReader == <<se_vars, sw_vars, mg_vars, pl_vars, bi_vars, fr_vars>>
NotBuffered == <<se_vars, sw_vars, mg_vars, pl_vars, rd_vars, fr_vars>>
NotRoots == <<se_vars, sw_vars, mg_vars, pl_vars, rd_vars, bi_vars>>

\* The parts of the state that a specification does not use stay idle.
EntryIdle ==
    /\ se_pc = "idle"
    /\ se_entry = [id |-> 0, definition |-> <<>>]
    /\ se_f = [a |-> 1, b |-> 0, app |-> -1, to |-> 0]
    /\ se_updated = [id |-> 0, definition |-> <<>>, panic |-> FALSE]
    /\ se_refs = [refs |-> <<>>, panic |-> FALSE]

WriterIdle ==
    /\ sw_pc = "idle"
    /\ sw = [writer |-> <<>>, is_finalized |-> FALSE]
    /\ sw_calls = 0
    /\ sw_first = "none"

MergeIdle ==
    /\ assembly = <<>>
    /\ load_references = FALSE
    /\ resolver = <<>>
    /\ merger = <<>>
    /\ node_step_ids = <<>>
    /\ reference_map = {}
    /\ m_pc = "idle"
    /\ m_k = 0
    /\ m_result = ""
    /\ resolver_calls = <<>>
    /\ imports = <<>>
    /\ sink_faults = 0

ReaderIdle ==
    /\ rd_input = <<>>
    /\ rd_cuts = {}
    /\ rd_reader = <<>>
    /\ rd_pc = "idle"
    /\ rd_items = <<>>

PlainIdle ==
    /\ pl_pieces = <<>>
    /\ pl_input = <<>>
    /\ pl = <<>>
    /\ pl_pc = "idle"
    /\ pl_items = <<>>
    /\ pl_written = <<>>
    /\ pl_reparsed = <<>>

BufferedIdle ==
    /\ bi_inner = <<>>
    /\ bi_it = <<>>
    /\ bi_hist = <<>>
    /\ bi_calls = 0

RootsIdle ==
    /\ fr_stream = <<>>
    /\ fr_k = 0
    /\ fr_finder = <<>>
    /\ fr_roots = <<>>
    /\ fr_pc = "idle"

\* The parts that only the BufferedIterator and FindRootNodes specifications use.
HelpersIdle == BufferedIdle /\ RootsIdle

(***************************************************************************)
(* Characters and decimal numbers                                          *)
(***************************************************************************)
DigitChars == <<"0", "1", "2", "3", "4", "5", "6", "7", "8", "9">>

is_ascii_digit(c) == \E d \in 1..10 : DigitChars[d] = c

DigitValue(c) == (CHOOSE d \in 1..10 : DigitChars[d] = c) - 1

RECURSIVE to_string(_)
\* u64::to_string: the decimal digits of n, most significant first.
to_string(n) ==
    IF n < 10 THEN <<DigitChars[n + 1]>>
    ELSE to_string(n \div 10) \o <<DigitChars[(n % 10) + 1]>>

RECURSIVE DigitsValue(_, _)
DigitsValue(buffer, acc) ==
    IF buffer = <<>> THEN acc
    ELSE DigitsValue(Tail(buffer), acc * 10 + DigitValue(Head(buffer)))

\* str::parse::<u64> on a buffer of ASCII digits: the empty buffer is an
\* error (-1 here), anything else its decimal value.
parse_u64(buffer) == IF buffer = <<>> THEN -1 ELSE DigitsValue(buffer, 0)

\* Sequence a is a prefix of sequence b.
IsPrefix(a, b) == Len(a) <= Len(b) /\ SubSeq(b, 1, Len(a)) = a

(***************************************************************************)
(* The id functions handed to update_references.  A function is the record *)
(* [a, b, app, to]: app goes to `to`, every other id x to a*x + b.         *)
(***************************************************************************)
FnApply(f, x) == IF x = f.app THEN f.to ELSE f.a * x + f.b

(***************************************************************************)
(* StepEntry (step/mod.rs)                                                 *)
(***************************************************************************)
StepEntry(id, definition) == [id |-> id, definition |-> definition]

\* The scanner state before the first character.
ScanInit == [mode |-> "Definition", buffer |-> <<>>, out |-> <<>>,
             refs |-> <<>>, panic |-> FALSE]

\* One iteration of the loop of update_references on character c.
update_step(st, c, f) ==
    CASE st.mode = "Definition" ->
            IF c = "#" THEN [st EXCEPT !.mode = "Reference"]
            ELSE IF c = "'" THEN [st EXCEPT !.mode = "String", !.out = @ \o <<c>>]
            ELSE [st EXCEPT !.out = @ \o <<c>>]
      [] st.mode = "Reference" ->
            IF is_ascii_digit(c) THEN [st EXCEPT !.buffer = @ \o <<c>>]
            ELSE IF parse_u64(st.buffer) < 0 THEN [st EXCEPT !.panic = TRUE]
            ELSE LET new_id == FnApply(f, parse_u64(st.buffer))
                     pushed == st.out \o <<"#">> \o to_string(new_id)
                 IN  IF c = "'"
                     THEN [st EXCEPT !.buffer = <<>>, !.mode = "String",
                                     !.out = pushed \o <<c>>]
                     ELSE IF c = "#"
                     THEN [st EXCEPT !.buffer = <<>>, !.mode = "Reference",
                                     !.out = pushed]
                     ELSE [st EXCEPT !.buffer = <<>>, !.mode = "Definition",
                                     !.out = pushed \o <<c>>]
      [] OTHER ->
            IF c = "'" THEN [st EXCEPT !.mode = "Definition", !.out = @ \o <<c>>]
            ELSE [st EXCEPT !.out = @ \o <<c>>]

RECURSIVE update_scan(_, _, _, _)
update_scan(definition, i, f, st) ==
    IF i > Len(definition) \/ st.panic THEN st
    ELSE update_scan(definition, i + 1, f, update_step(st, definition[i], f))

\* StepEntry::update_references.  The result carries `panic` when the
\* unwrap of the parsed reference number fails.
update_references(e, f) ==
    LET st == update_scan(e.definition, 1, f, ScanInit)
    IN  [id |-> FnApply(f, e.id), definition |-> st.out, panic |-> st.panic]

\* One iteration of the loop of get_references on character c.
references_step(st, c) ==
    CASE st.mode = "Definition" ->
            IF c = "#" THEN [st EXCEPT !.mode = "Reference"]
            ELSE IF c = "'" THEN [st EXCEPT !.mode = "String"]
            ELSE st
      [] st.mode = "Reference" ->
            IF is_ascii_digit(c) THEN [st EXCEPT !.buffer = @ \o <<c>>]
            ELSE IF parse_u64(st.buffer) < 0 THEN [st EXCEPT !.panic = TRUE]
            ELSE LET pushed == st.refs \o <<parse_u64(st.buffer)>>
                 IN  IF c = "'"
                     THEN [st EXCEPT !.buffer = <<>>, !.mode = "String", !.refs = pushed]
                     ELSE IF c = "#"
                     THEN [st EXCEPT !.buffer = <<>>, !.mode = "Reference", !.refs = pushed]
                     ELSE [st EXCEPT !.buffer = <<>>, !.mode = "Definition", !.refs = pushed]
      [] OTHER ->
            IF c = "'" THEN [st EXCEPT !.mode = "Definition"] ELSE st

RECURSIVE references_scan(_, _, _)
references_scan(definition, i, st) ==
    IF i > Len(definition) \/ st.panic THEN st
    ELSE references_scan(definition, i + 1, references_step(st, definition[i]))

\* StepEntry::get_references.
get_references(e) ==
    LET st == references_scan(e.definition, 1, ScanInit)
    IN  [refs |-> st.refs, panic |-> st.panic]

(***************************************************************************)
(* Specification of the entry model: an entry and an id function are       *)
(* drawn from bounded sets and the two operations are applied to them.     *)
(***************************************************************************)
MaxDefLen == 4
MaxEntryId == 2
MaxShift == 9

EntryAlphabet == {"#", "'", "1", "2", "A", ","}

RECURSIVE Strings(_, _)
Strings(alphabet, n) ==
    IF n = 0 THEN {<<>>}
    ELSE LET shorter == Strings(alphabet, n - 1)
         IN  shorter \cup {s \o <<c>> : s \in {t \in shorter : Len(t) = n - 1},
                                        c \in alphabet}

\* Strictly monotone id functions: x + b, 2x + b.
MonotoneFns == {[a |-> a, b |-> b, app |-> -1, to |-> 0] :
                    a \in {1, 2}, b \in {0, 1, MaxShift}}

SeNone == [id |-> 0, definition |-> <<>>, panic |-> FALSE]
SeNoRefs == [refs |-> <<>>, panic |-> FALSE]

EntryInit ==
    /\ WriterIdle
    /\ MergeIdle
    /\ PlainIdle
    /\ ReaderIdle
    /\ HelpersIdle
    /\ se_pc = "new"
    /\ se_entry \in {StepEntry(id, d) : id \in 1..MaxEntryId,
                                         d \in Strings(EntryAlphabet, MaxDefLen)}
    /\ se_f \in MonotoneFns
    /\ se_updated = SeNone
    /\ se_refs = SeNoRefs

GetReferences ==
    /\ se_pc = "new"
    /\ se_refs' = get_references(se_entry)
    /\ se_pc' = "read"
    /\ UNCHANGED <<se_entry, se_f, se_updated>>
    /\ UNCHANGED NotEntry

UpdateReferences ==
    /\ se_pc = "read"
    /\ se_updated' = update_references(se_entry, se_f)
    /\ se_pc' = "updated"
    /\ UNCHANGED <<se_entry, se_f, se_refs>>
    /\ UNCHANGED NotEntry

EntryNext == GetReferences \/ UpdateReferences

SpecEntry == EntryInit /\ [][EntryNext]_vars

(***************************************************************************)
(* Claims about the entry model                                            *)
(***************************************************************************)
RECURSIVE ReferenceSkeleton(_, _, _, _)
\* The text of a definition with every reference number (the digits that
\* directly follow a `#` outside a quoted string) replaced by the mark "N".
ReferenceSkeleton(definition, i, inString, inNumber) ==
    IF i > Len(definition) THEN <<>>
    ELSE LET c == definition[i]
         IN  IF inString
             THEN <<c>> \o ReferenceSkeleton(definition, i + 1, c # "'", FALSE)
             ELSE IF inNumber /\ is_ascii_digit(c)
             THEN ReferenceSkeleton(definition, i + 1, FALSE, TRUE)
             ELSE IF c = "#" /\ i < Len(definition) /\ is_ascii_digit(definition[i + 1])
             THEN <<"#", "N">> \o ReferenceSkeleton(definition, i + 1, FALSE, TRUE)
             ELSE <<c>> \o ReferenceSkeleton(definition, i + 1, c = "'", FALSE)

RECURSIVE EveryHashIsReference(_, _, _)
\* Every `#` outside a quoted string is directly followed by a digit.
EveryHashIsReference(definition, i, inString) ==
    IF i > Len(definition) THEN TRUE
    ELSE LET c == definition[i]
         IN  IF inString THEN EveryHashIsReference(definition, i + 1, c # "'")
             ELSE /\ c = "#" => (i < Len(definition) /\ is_ascii_digit(definition[i + 1]))
                  /\ EveryHashIsReference(definition, i + 1, c = "'")

MappedRefs(refs, f) == [i \in 1..Len(refs) |-> FnApply(f, refs[i])]

\* C10: for every entry e whose `#` characters all start a reference and
\* every strictly monotone f, update_references(e, f) has id f(e.id), its
\* references are those of e with f applied in the same order, and the text
\* outside the reference numbers (quoted strings included) is unchanged.
C10_UpdateIsHomomorphism ==
    (se_pc = "updated" /\ EveryHashIsReference(se_entry.definition, 1, FALSE)) =>
        /\ ~se_updated.panic
        /\ se_updated.id = FnApply(se_f, se_entry.id)
        /\ get_references(se_updated).refs = MappedRefs(se_refs.refs, se_f)
        /\ ReferenceSkeleton(se_updated.definition, 1, FALSE, FALSE)
             = ReferenceSkeleton(se_entry.definition, 1, FALSE, FALSE)

\* The first position from i on that holds no digit (Len + 1 when the digits
\* run to the end of the definition).
DigitRunEnd(definition, i) ==
    CHOOSE j \in i..(Len(definition) + 1) :
        /\ \A k \in i..(j - 1) : is_ascii_digit(definition[k])
        /\ j <= Len(definition) => ~is_ascii_digit(definition[j])

RECURSIVE ReferencesByText(_, _, _)
\* The decimal numbers that directly follow a `#` outside quoted strings, in
\* textual order and with repetitions, read off the text of the definition.
ReferencesByText(definition, i, inString) ==
    IF i > Len(definition) THEN <<>>
    ELSE LET c == definition[i]
             j == DigitRunEnd(definition, i + 1)
         IN  IF inString THEN ReferencesByText(definition, i + 1, c # "'")
             ELSE IF c = "#" /\ j > i + 1
             THEN <<parse_u64(SubSeq(definition, i + 1, j - 1))>>
                      \o ReferencesByText(definition, j, FALSE)
             ELSE ReferencesByText(definition, i + 1, c = "'")

\* C11: for every entry, get_references returns exactly the numbers that
\* directly follow a `#` outside quoted strings, in textual order and with
\* repetitions, wherever the reference stands (start, middle or end of the
\* definition), and nothing for a `#` inside a quoted string.
C11_ReferencesByText ==
    se_pc # "new" =>
        /\ ~se_refs.panic
        /\ se_refs.refs = ReferencesByText(se_entry.definition, 1, FALSE)

\* The last character of the definition belongs to a reference.
EndsWithReference(definition) ==
    \E i \in 1..Len(definition) :
        /\ definition[i] = "#"
        /\ i < Len(definition)
        /\ DigitRunEnd(definition, i + 1) = Len(definition) + 1

\* Side condition under which the code agrees with the text: every `#`
\* starts a reference and no reference ends the definition.
C11_ReferencesByTextInside ==
    (/\ se_pc # "new"
     /\ EveryHashIsReference(se_entry.definition, 1, FALSE)
     /\ ~EndsWithReference(se_entry.definition)) =>
        /\ ~se_refs.panic
        /\ se_refs.refs = ReferencesByText(se_entry.definition, 1, FALSE)

\* The id function is the identity.
IsIdentity(f) == f.a = 1 /\ f.b = 0 /\ f.app < 0

\* C28: update_references with the identity function is the identity on
\* entries: for every definition, one that ends with a reference included,
\* the result has the same id and the same definition, character for
\* character.
C28_IdentityIsIdentity ==
    (se_pc = "updated" /\ IsIdentity(se_f)) =>
        /\ ~se_updated.panic
        /\ se_updated.id = se_entry.id
        /\ se_updated.definition = se_entry.definition

\* The same for the definitions in which every `#` outside a string starts
\* a reference and no reference ends the definition.
C28_IdentityInside ==
    (/\ se_pc = "updated"
     /\ IsIdentity(se_f)
     /\ EveryHashIsReference(se_entry.definition, 1, FALSE)
     /\ ~EndsWithReference(se_entry.definition)) =>
        /\ ~se_updated.panic
        /\ se_updated.id = se_entry.id
        /\ se_updated.definition = se_entry.definition

(***************************************************************************)
(* StepWriter (step/writer.rs)                                             *)
(*                                                                         *)
(* The sink holds the chunks written so far, one chunk per writeln!.  A    *)
(* chunk is [kind, id, definition]: an entry chunk carries the entry, any  *)
(* other chunk carries the text of its line in `definition`.  Every call   *)
(* takes `fail`, the number of the sink operation of that call that the    *)
(* sink rejects (0: none); a rejected operation leaves the sink unchanged  *)
(* and ends the call with Error::StepFileWrite.                            *)
(***************************************************************************)
IsoLine ==
    <<"I", "S", "O", "-", "1", "0", "3", "0", "3", "-", "2", "1", ";",
      "\n", "\n">>

HeaderLine ==
    <<"H", "E", "A", "D", "E", "R", ";", "\n", "\n">>

EndsecLine ==
    <<"E", "N", "D", "S", "E", "C", ";", "\n", "\n">>

DataLine ==
    <<"D", "A", "T", "A", ";", "\n">>

EndIsoLine ==
    <<"E", "N", "D", "-", "I", "S", "O", "-", "1", "0", "3", "0", "3", "-",
      "2", "1", ";", "\n">>

\* The protocol string of write_step and of StepMerger::new.
ProtocolText ==
    <<"A", "P", "2", "0", "3", "_", "C", "O", "N", "F", "I", "G", "U", "R",
      "A", "T", "I", "O", "N", "_", "C", "O", "N", "T", "R", "O", "L", "L",
      "E", "D", "_", "3", "D", "_", "D", "E", "S", "I", "G", "N", "_", "O",
      "F", "_", "M", "E", "C", "H", "A", "N", "I", "C", "A", "L", "_", "P",
      "A", "R", "T", "S", "_", "A", "N", "D", "_", "A", "S", "S", "E", "M",
      "B", "L", "I", "E", "S", "_", "M", "I", "M", "_", "L", "F", " ", "{",
      " ", "1", " ", "0", " ", "1", "0", "3", "0", "3", " ", "4", "0", "3",
      " ", "1", " ", "1", " ", "4", " ", "}">>

\* The implementation level "2;1" passed by write_step and StepMerger::new.
ImplementationLevel == <<"2", ";", "1">>

\* chrono::Local::now().to_rfc3339(): one value of the clock.
current_date ==
    <<"2", "0", "2", "4", "-", "0", "1", "-", "0", "1", "T", "0", "0", ":",
      "0", "0", ":", "0", "0", "+", "0", "0", ":", "0", "0">>

Chunk(kind, id, definition) == [kind |-> kind, id |-> id, definition |-> definition]

Flush == Chunk("flush", 0, <<>>)

FileDescriptionLine(implementation_level) ==
    <<"F", "I", "L", "E", "_", "D", "E", "S", "C", "R", "I", "P", "T", "I",
      "O", "N", "(", "(", "'", "'", ")", ",", " ", "'">>
    \o implementation_level \o <<"'", ")", ";", "\n">>

FileNameLine(filename) ==
    <<"F", "I", "L", "E", "_", "N", "A", "M", "E", "(", "'">> \o filename
    \o <<"'", ",", " ", "'">> \o current_date
    \o <<"'", ",", " ", "(", "'", "'", ")", ",", " ", "(", "'", "'", ")",
         ",", " ", "'", "s", "t", "e", "p", "-", "m", "e", "r", "g", "e",
         "r", "'", ",", " ", "'", "'", ",", " ", "'", "'", ")", ";", "\n">>

FileSchemaLine(protocol) ==
    <<"F", "I", "L", "E", "_", "S", "C", "H", "E", "M", "A", "(", "(", "'">>
    \o protocol \o <<"'", ")", ")", ";", "\n", "\n">>

\* The sink after a call that issues the operations ops, the fail-th of
\* which is rejected.  A flush adds nothing to the sink.
SinkAfter(sink, ops, fail) ==
    LET done == IF fail = 0 \/ fail > Len(ops) THEN Len(ops) ELSE fail - 1
    IN  sink \o SelectSeq(SubSeq(ops, 1, done), LAMBDA c : c.kind # "flush")

SinkFailed(ops, fail) == fail \in 1..Len(ops)

\* The sink operations of StepWriter::write_header, in order.
write_header(implementation_level, filename, protocol) ==
    << Chunk("ISO", 0, IsoLine),
       Chunk("HEADER", 0, HeaderLine),
       Chunk("FILE_DESCRIPTION", 0, FileDescriptionLine(implementation_level)),
       Chunk("FILE_NAME", 0, FileNameLine(filename)),
       Chunk("FILE_SCHEMA", 0, FileSchemaLine(protocol)),
       Chunk("HEADER_ENDSEC", 0, EndsecLine),
       Flush >>

FinalizeOps == <<Chunk("ENDSEC", 0, EndsecLine), Chunk("END", 0, EndIsoLine), Flush>>

\* A finalize without the is_finalized guard.
finalize_unguarded(w, fail) ==
    [w |-> [writer |-> SinkAfter(w.writer, FinalizeOps, fail), is_finalized |-> TRUE],
     err |-> SinkFailed(FinalizeOps, fail)]

\* StepWriter::finalize.  The flag is set before the first write.
finalize(w, fail) ==
    IF w.is_finalized THEN [w |-> w, err |-> FALSE]
    ELSE [w |-> [writer |-> SinkAfter(w.writer, FinalizeOps, fail),
                 is_finalized |-> TRUE],
          err |-> SinkFailed(FinalizeOps, fail)]

\* Drop for StepWriter: finalize, the error only logged.
drop(w, fail) == finalize(w, fail).w

\* StepWriter::new.  When a write of the header or of the DATA line fails,
\* the half-built writer is dropped on the way out, which finalizes it.
StepWriter_new(sink, implementation_level, filename, protocol, fail, failDrop) ==
    LET ops == write_header(implementation_level, filename, protocol)
                 \o <<Chunk("DATA", 0, DataLine)>>
        step_writer == [writer |-> SinkAfter(sink, ops, fail), is_finalized |-> FALSE]
    IN  IF SinkFailed(ops, fail)
        THEN [w |-> drop(step_writer, failDrop), err |-> TRUE]
        ELSE [w |-> step_writer, err |-> FALSE]

\* StepWriter::write_entry.  The assertion panics on a finalized writer.
write_entry(w, entry, fail) ==
    IF w.is_finalized THEN [w |-> w, err |-> FALSE, panic |-> TRUE]
    ELSE LET ops == <<Chunk("entry", entry.id, entry.definition)>>
         IN  [w |-> [w EXCEPT !.writer = SinkAfter(w.writer, ops, fail)],
              err |-> SinkFailed(ops, fail), panic |-> FALSE]

\* The text of a chunk as the sink receives it.
ChunkText(c) ==
    IF c.kind = "entry"
    THEN <<"#">> \o to_string(c.id) \o <<"=">> \o c.definition \o <<";", "\n">>
    ELSE c.definition

(***************************************************************************)
(* Specification of the writer: a client builds a writer, calls            *)
(* write_entry and finalize in any order and finally drops the writer.     *)
(* An error returned by a call, or the panic of write_entry, makes the     *)
(* client leave, which drops the writer as well.                           *)
(***************************************************************************)
MaxCalls == 3

WriterEntries == {StepEntry(1, <<"A">>), StepEntry(2, <<"B", "(", "#", "1", ")">>)}

WriterInit ==
    /\ EntryIdle
    /\ MergeIdle
    /\ PlainIdle
    /\ ReaderIdle
    /\ HelpersIdle
    /\ sw_pc = "start"
    /\ sw = [writer |-> <<>>, is_finalized |-> FALSE]
    /\ sw_calls = 0
    /\ sw_first = "none"

\* The outcome of the call that finalizes the writer for the first time.
FirstFinalize(w, fail) ==
    IF w.is_finalized THEN sw_first
    ELSE IF fail \in 1..2 THEN "rejected" ELSE "accepted"

WriterNew ==
    /\ sw_pc = "start"
    /\ \E fail \in 0..8, failDrop \in 0..3 :
         LET r == StepWriter_new(<<>>, ImplementationLevel, <<>>, ProtocolText, fail, failDrop)
         IN  /\ (fail = 0 => failDrop = 0)
             /\ sw' = r.w
             /\ sw_pc' = IF r.err THEN "new_failed" ELSE "live"
             /\ sw_first' = IF r.err THEN FirstFinalize([is_finalized |-> FALSE], failDrop)
                            ELSE sw_first
    /\ UNCHANGED <<sw_calls>>
    /\ UNCHANGED NotWriter

WriterWriteEntry ==
    /\ sw_pc = "live"
    /\ sw_calls < MaxCalls
    /\ \E entry \in WriterEntries, fail \in 0..1 :
         LET r == write_entry(sw, entry, fail)
         IN  /\ sw' = r.w
             /\ sw_pc' = IF r.panic THEN "unwinding"
                         ELSE IF r.err THEN "returning" ELSE "live"
    /\ sw_calls' = sw_calls + 1
    /\ UNCHANGED <<sw_first>>
    /\ UNCHANGED NotWriter

WriterFinalize ==
    /\ sw_pc = "live"
    /\ sw_calls < MaxCalls
    /\ \E fail \in 0..3 :
         LET r == finalize(sw, fail)
         IN  /\ sw' = r.w
             /\ sw_pc' = IF r.err THEN "returning" ELSE "live"
             /\ sw_first' = FirstFinalize(sw, fail)
    /\ sw_calls' = sw_calls + 1
    /\ UNCHANGED NotWriter

WriterDrop ==
    /\ sw_pc \in {"live", "returning", "unwinding"}
    /\ \E fail \in 0..3 :
         /\ sw' = drop(sw, fail)
         /\ sw_first' = FirstFinalize(sw, fail)
    /\ sw_pc' = "dropped"
    /\ UNCHANGED <<sw_calls>>
    /\ UNCHANGED NotWriter

WriterNext == WriterNew \/ WriterWriteEntry \/ WriterFinalize \/ WriterDrop

SpecWriter == WriterInit /\ [][WriterNext]_vars

(***************************************************************************)
(* Claims about the writer                                                 *)
(***************************************************************************)
KindCount(sink, kind) == Cardinality({i \in 1..Len(sink) : sink[i].kind = kind})

\* The suffix chunks come last, in order, behind the DATA line.
SuffixInPlace(sink) ==
    \A i \in 1..Len(sink) :
        /\ sink[i].kind = "ENDSEC" =>
              /\ \E d \in 1..(i - 1) : sink[d].kind = "DATA"
              /\ \A j \in (i + 1)..Len(sink) : sink[j].kind = "END"
        /\ sink[i].kind = "END" => (i = Len(sink) /\ i > 1 /\ sink[i - 1].kind = "ENDSEC")

SuffixComplete(sink) ==
    /\ KindCount(sink, "ENDSEC") = 1
    /\ KindCount(sink, "END") = 1
    /\ Len(sink) >= 2
    /\ sink[Len(sink) - 1].kind = "ENDSEC"
    /\ sink[Len(sink)].kind = "END"

Ref(id) == <<"#">> \o to_string(id)

\* format!("{}", x) for an f32 with an integral value.
fmt_f32(x) == IF x < 0 THEN <<"-">> \o to_string(0 - x) ELSE to_string(x)

identity_matrix == <<1, 0, 0, 0,  0, 1, 0, 0,  0, 0, 1, 0,  0, 0, 0, 1>>

\* A node of the assembly.  `link` is <<>> for None and <<name>> for
\* Some(name); `children` holds positions in the node list, counted from 1
\* where the code counts from 0.
Node(label, link, metadata, transform, children) ==
    [label |-> label, link |-> link, metadata |-> metadata,
     transform |-> transform, children |-> children]

NodeStepIds(product_definition_id, shape_representation_id) ==
    [product_definition_id |-> product_definition_id,
     shape_representation_id |-> shape_representation_id]

\* A counter that leaves out every second id.
get_new_id_skipping(id_counter) == id_counter + 2

(***************************************************************************)
(* StepMerger (merge/mod.rs).  The merger is the record of its fields      *)
(* [writer, id_counter, default_coordinate_system, mechanical_design_ids]. *)
(* A call returns the merger after the call and `err` when it returned an  *)
(* error; `fail` is the number of the add_entry of the call whose write    *)
(* the sink rejects (0: none).                                             *)
(***************************************************************************)
\* get_new_id: the counter after the increment, which is the id returned.
get_new_id(id_counter) == id_counter + 1

\* The merger and the result of add_entry once write_entry has returned r.
entry_written(m, id, r) ==
    [m |-> [m EXCEPT !.id_counter = id, !.writer = r.w],
     id |-> id, err |-> r.err, panic |-> r.panic]

\* add_entry: take a new id, then write the entry.
add_entry(m, definition, fail) ==
    entry_written(m, get_new_id(m.id_counter),
                  write_entry(m.writer, StepEntry(get_new_id(m.id_counter), definition), fail))

\* add_entry_full: write the entry under the id it carries.
add_entry_full(m, entry, fail) ==
    entry_written(m, m.id_counter, write_entry(m.writer, entry, fail))

RECURSIVE add_entries(_, _, _, _)
RECURSIVE add_entries_after(_, _, _, _)
\* A run of add_entry calls, each followed by `?`: the rest of the run after
\* an add_entry has returned r.
add_entries_after(r, definitions, fail, ids) ==
    IF r.err \/ r.panic
    THEN [m |-> r.m, ids |-> ids, err |-> r.err, panic |-> r.panic]
    ELSE add_entries(r.m, definitions, fail, Append(ids, r.id))

add_entries(m, definitions, fail, ids) ==
    IF definitions = <<>> THEN [m |-> m, ids |-> ids, err |-> FALSE, panic |-> FALSE]
    ELSE add_entries_after(add_entry(m, Head(definitions), IF fail = 1 THEN 1 ELSE 0),
                           Tail(definitions), fail - 1, ids)

ApplicationContextText ==
    <<"APPLICATION_CONTEXT", "(", "'", "C", "onfiguration", " ",
       "controlled", " ", "3", "D", " ", "designs", " ", "of", " ",
       "mechanical", " ", "parts", " ", "and", " ", "assemblies", "'", ")">>
ApplicationProtocolDefinitionText ==
    <<"APPLICATION_PROTOCOL_DEFINITION", "(", "'", "international", " ",
       "standard", "'", ",", " ", "'", "configuration", "_", "control", "_",
       "3", "d", "_", "design", "_", "ed", "2", "_", "mim", "'", ",", "2",
       "0", "0", "4", ",", " ", "#", "1", ")">>
\* create_app_context after its first add_entry has returned r.  The
\* assertion on the id of the first entry panics when that id is not 1.
app_context_created(r, fail) ==
    IF r.err \/ r.panic THEN r
    ELSE IF r.ids[1] # 1 THEN [r EXCEPT !.panic = TRUE]
    ELSE add_entries(r.m, <<ApplicationProtocolDefinitionText>>, fail - 1, r.ids)

\* create_app_context.
create_app_context(m, fail) ==
    app_context_created(add_entries(m, <<ApplicationContextText>>, fail, <<>>), fail)

CartesianPointOrigin ==
    <<"CARTESIAN_POINT", "(", "'", "'", ",(", "0", ".,", "0", ".,", "0",
       ".))">>
DirectionZ ==
    <<"DIRECTION", "(", "'", "'", ",(", "0", ".,", "0", ".,", "1", ".))">>
DirectionX ==
    <<"DIRECTION", "(", "'", "'", ",(", "1", ".,", "0", ".,", "0", ".))">>
Axis2Placement3d(a, b, c) ==
    <<"AXIS", "2", "_PLACEMENT_", "3", "D", "(", "'", "'", ",">> \o Ref(a)
    \o <<",">> \o Ref(b) \o <<",">> \o Ref(c) \o <<")">>
\* merge keeps the id of the placement as its default coordinate system.
coordinate_system_created(r) ==
    IF r.err \/ r.panic THEN r ELSE [r EXCEPT !.m.default_coordinate_system = r.ids[4]]

\* The default coordinate system of merge; coord_id is the id its first
\* entry gets.
create_default_coordinate_system(m, fail) ==
    coordinate_system_created(
        add_entries(m, <<CartesianPointOrigin, DirectionZ, DirectionX,
                         Axis2Placement3d(get_new_id(m.id_counter),
                                          get_new_id(m.id_counter) + 1,
                                          get_new_id(m.id_counter) + 2)>>,
                    fail, <<>>))

SteradianUnit ==
    <<"(", "NAMED_UNIT", "(", "*", ")", "SI_UNIT", "($,.", "STERADIAN", ".)",
       "SOLID_ANGLE_UNIT", "())">>
LengthUnit ==
    <<"(", "LENGTH_UNIT", "()", "NAMED_UNIT", "(", "*", ")", "SI_UNIT", "(.",
       "MILLI", ".,.", "METRE", ".))">>
RadianUnit ==
    <<"(", "NAMED_UNIT", "(", "*", ")", "PLANE_ANGLE_UNIT", "()", "SI_UNIT",
       "($,.", "RADIAN", ".))">>
ProductContext ==
    <<"PRODUCT_CONTEXT", "(", "'", "'", ",", "#", "1", ",", "'",
       "mechanical", "'", ")">>
Product(label, context) ==
    <<"PRODUCT", "(", "'">> \o label \o <<"'", ",", "'">> \o label
    \o <<"'", ",", "'", "'", ",(">> \o Ref(context) \o <<"))">>
ProductDefinitionContext ==
    <<"PRODUCT_DEFINITION_CONTEXT", "(", "'", "part", "_", "definition", "'",
       ",", "#", "1", ",", "'", "'", ")">>
ProductDefinitionFormation(product) ==
    <<"PRODUCT_DEFINITION_FORMATION", "(", "'", "'", ",", "'", "'", ",">>
    \o Ref(product) \o <<")">>
ProductDefinition(formation, context) ==
    <<"PRODUCT_DEFINITION", "(", "'", "'", ",", "'", "'", ",">>
    \o Ref(formation) \o <<",">> \o Ref(context) \o <<")">>
ProductDefinitionShape(label, definition) ==
    <<"PRODUCT_DEFINITION_SHAPE", "(", "'">> \o label \o <<"'", ",$,">>
    \o Ref(definition) \o <<")">>
ProductRelatedProductCategory(product) ==
    <<"PRODUCT_RELATED_PRODUCT_CATEGORY", "(", "'", "component", "'", ",",
       "'", "'", ",(">> \o Ref(product) \o <<"))">>
NodeUncertainty(length) ==
    <<"UNCERTAINTY_MEASURE_WITH_UNIT", "(", "LENGTH_MEASURE", "(", "0", ".",
       "1", "E", "-", "1", "2", "),">> \o Ref(length)
    \o <<",", "'", "distance", " ", "accuracy", " ", "value", "'", ",", "'",
       "edge", " ", "curve", " ", "and", " ", "vertex", " ", "point", " ",
       "accuracy", "'", ")">>
GeometricRepresentationContext(uncertainty, length, angle, solid) ==
    <<"(", "GEOMETRIC_REPRESENTATION_CONTEXT", "(", "3", ")",
       "GLOBAL_UNCERTAINTY_ASSIGNED_CONTEXT", "((">> \o Ref(uncertainty)
    \o <<"))", "GLOBAL_UNIT_ASSIGNED_CONTEXT", "((">> \o Ref(length)
    \o <<",">> \o Ref(angle) \o <<",">> \o Ref(solid)
    \o <<"))", "REPRESENTATION_CONTEXT", "(", "'", "'", ",", "'", "'", "))">>
ShapeRepresentation(label, placement, context) ==
    <<"SHAPE_REPRESENTATION", "(", "'">> \o label \o <<"'", ",(">>
    \o Ref(placement) \o <<"),">> \o Ref(context) \o <<")">>
ShapeDefinitionRepresentation(shape, representation) ==
    <<"SHAPE_DEFINITION_REPRESENTATION", "(">> \o Ref(shape) \o <<",">>
    \o Ref(representation) \o <<")">>
PropertyDefinition(key, definition) ==
    <<"PROPERTY_DEFINITION", "(", "'">> \o key \o <<"'", ",", "'", "'", ",">>
    \o Ref(definition) \o <<")">>
DescriptiveRepresentationItem(key, value) ==
    <<"DESCRIPTIVE_REPRESENTATION_ITEM", "(", "'">> \o key
    \o <<"'", ",", "'">> \o value \o <<"'", ")">>
Representation(item) ==
    <<"REPRESENTATION", "(", "'", "'", ",(">> \o Ref(item) \o <<"),$)">>
PropertyDefinitionRepresentation(property, representation) ==
    <<"PROPERTY_DEFINITION_REPRESENTATION", "(">> \o Ref(property) \o <<",">>
    \o Ref(representation) \o <<")">>
\* The fixed entries of create_node, from the id of the first one.
NodeEntries(label, start_id) ==
    << CartesianPointOrigin, DirectionZ, DirectionX,
       Axis2Placement3d(start_id, start_id + 1, start_id + 2),
       SteradianUnit, LengthUnit, RadianUnit,
       ProductContext,
       Product(label, start_id + 7),
       ProductDefinitionContext,
       ProductDefinitionFormation(start_id + 8),
       ProductDefinition(start_id + 10, start_id + 9),
       ProductDefinitionShape(<<>>, start_id + 11),
       ProductRelatedProductCategory(start_id + 8),
       NodeUncertainty(start_id + 5),
       GeometricRepresentationContext(start_id + 14, start_id + 5, start_id + 6,
                                      start_id + 4),
       ShapeRepresentation(label, start_id + 3, start_id + 15),
       ShapeDefinitionRepresentation(start_id + 12, start_id + 16) >>

\* The four entries of one metadata pair, from the id of the first one.
MetadataEntries(metadata, product_definition_id, prop_def_id) ==
    << PropertyDefinition(metadata.key, product_definition_id),
       DescriptiveRepresentationItem(metadata.key, metadata.value),
       Representation(prop_def_id + 1),
       PropertyDefinitionRepresentation(prop_def_id, prop_def_id + 2) >>

RECURSIVE AllMetadataEntries(_, _, _)
AllMetadataEntries(metadata, product_definition_id, prop_def_id) ==
    IF metadata = <<>> THEN <<>>
    ELSE MetadataEntries(Head(metadata), product_definition_id, prop_def_id)
         \o AllMetadataEntries(Tail(metadata), product_definition_id, prop_def_id + 4)

\* create_node after the metadata entries: q is the result of their run.
node_created(q, product_definition_id, shape_representation_id) ==
    [m |-> q.m, err |-> q.err, panic |-> q.panic,
     node_ids |-> NodeStepIds(product_definition_id, shape_representation_id)]

\* create_node after the fixed entries: r is the result of their run, which
\* holds the ids of PRODUCT_DEFINITION and SHAPE_REPRESENTATION.
node_entries_created(r, node, fail) ==
    IF r.err \/ r.panic
    THEN [m |-> r.m, err |-> r.err, panic |-> r.panic, node_ids |-> NodeStepIds(0, 0)]
    ELSE node_created(add_entries(r.m,
                                  AllMetadataEntries(node.metadata, r.ids[12],
                                                     get_new_id(r.m.id_counter)),
                                  fail - Len(r.ids), <<>>),
                      r.ids[12], r.ids[17])

\* A create_node that returns the two ids in each other's place.
create_node_exchanged(m, node, fail) ==
    LET r == node_entries_created(
                 add_entries(m, NodeEntries(node.label, get_new_id(m.id_counter)), fail, <<>>),
                 node, fail)
    IN  [r EXCEPT !.node_ids = NodeStepIds(r.node_ids.shape_representation_id,
                                           r.node_ids.product_definition_id)]

\* create_node.
create_node(m, node, fail) ==
    node_entries_created(
        add_entries(m, NodeEntries(node.label, get_new_id(m.id_counter)), fail, <<>>),
        node, fail)

CartesianPoint(x, y, z) ==
    <<"CARTESIAN_POINT", "(", "'", "'", ",(">> \o fmt_f32(x) \o <<",">>
    \o fmt_f32(y) \o <<",">> \o fmt_f32(z) \o <<"))">>
Direction(axis) ==
    <<"DIRECTION", "(", "'", "'", ",(">> \o fmt_f32(axis[1]) \o <<",">>
    \o fmt_f32(axis[2]) \o <<",">> \o fmt_f32(axis[3]) \o <<"))">>
ItemDefinedTransformation(from, to) ==
    <<"ITEM_DEFINED_TRANSFORMATION", "(", "'", "'", ",", "'", "'", ",">>
    \o Ref(from) \o <<",">> \o Ref(to) \o <<")">>
RepresentationRelationship(child_label, parent_label, child, parent, transformation) ==
    <<"(", "REPRESENTATION_RELATIONSHIP", "(", "'", "C", "hild", " ", ">",
       " ", "P", "arent", "'", ",", "'">> \o child_label \o <<" ", ">", " ">>
    \o parent_label \o <<"'", ",">> \o Ref(child) \o <<",", " ">>
    \o Ref(parent)
    \o <<")", "REPRESENTATION_RELATIONSHIP_WITH_TRANSFORMATION", "(">>
    \o Ref(transformation)
    \o <<")", "SHAPE_REPRESENTATION_RELATIONSHIP", "())">>
NextAssemblyUsageOccurrence(child_label, parent, child) ==
    <<"NEXT_ASSEMBLY_USAGE_OCCURRENCE", "(", "'">> \o child_label
    \o <<"'", ",", "'", "'", ",", "'">> \o child_label \o <<"'", ",">>
    \o Ref(parent) \o <<",">> \o Ref(child) \o <<",", "'">> \o child_label
    \o <<"'", ")">>
ContextDependentShapeRepresentation(relationship, shape) ==
    <<"CONTEXT_DEPENDENT_SHAPE_REPRESENTATION", "(">> \o Ref(relationship)
    \o <<",">> \o Ref(shape) \o <<")">>
\* The entries of create_parent_child_relation, from the id of the first.
RelationEntries(parent_label, child_label, parent_ids, child_ids, transform, default_coordinate_system, start_id) ==
    << CartesianPoint(transform[13] * 1000, transform[14] * 1000, transform[15] * 1000),
       Direction(SubSeq(transform, 9, 11)),
       Direction(SubSeq(transform, 1, 3)),
       Axis2Placement3d(start_id, start_id + 1, start_id + 2),
       ItemDefinedTransformation(default_coordinate_system, start_id + 3),
       RepresentationRelationship(child_label, parent_label,
                                  child_ids.shape_representation_id,
                                  parent_ids.shape_representation_id, start_id + 4),
       NextAssemblyUsageOccurrence(child_label, parent_ids.product_definition_id,
                                   child_ids.product_definition_id),
       ProductDefinitionShape(child_label, start_id + 6),
       ContextDependentShapeRepresentation(start_id + 5, start_id + 7) >>

\* A relation with the ids of parent and child exchanged.
create_parent_child_relation_swapped(m, parent_label, child_label, parent_ids, child_ids, transform, fail) ==
    add_entries(m, RelationEntries(parent_label, child_label, child_ids, parent_ids,
                                   transform, m.default_coordinate_system,
                                   get_new_id(m.id_counter)),
                fail, <<>>)

\* create_parent_child_relation.
create_parent_child_relation(m, parent_label, child_label, parent_ids, child_ids, transform, fail) ==
    add_entries(m, RelationEntries(parent_label, child_label, parent_ids, child_ids,
                                   transform, m.default_coordinate_system,
                                   get_new_id(m.id_counter)),
                fail, <<>>)
PlaneAngleMeasureWithUnit(unit) ==
    <<"PLANE_ANGLE_MEASURE_WITH_UNIT", "(", "PLANE_ANGLE_MEASURE", "(", "1",
       ".", "7", "4", "5", "3", "2", "9", "2", "5", "1", "9", "9", "4", "E",
       "-", "0", "2", "),">> \o Ref(unit) \o <<")">>
DimensionalExponents ==
    <<"DIMENSIONAL_EXPONENTS", "(", "0", ".,", "0", ".,", "0", ".,", "0",
       ".,", "0", ".,", "0", ".,", "0", ".)">>
DegreeUnit(exponents) ==
    <<"(", "CONVERSION_BASED_UNIT", "(", "'", "DEGREE", "'", ",">>
    \o Ref(exponents)
    \o <<")", "NAMED_UNIT", "(", "#", "1", "0", "1", ")", "PLANE_ANGLE_UNIT",
       "())">>
TailUncertainty(length) ==
    <<"UNCERTAINTY_MEASURE_WITH_UNIT", "(", "LENGTH_MEASURE", "(", "1", "0",
       ".", "E", "-", "0", "3", "),">> \o Ref(length)
    \o <<",", "'", "distance", "_", "accuracy", "_", "value", "'", ",", "'",
       "C", "onfusion", " ", "accuracy", "'", ")">>
MechanicalDesign(list, context) ==
    <<"MECHANICAL_DESIGN_GEOMETRIC_PRESENTATION_REPRESENTATION", "(", "'",
       "'", ",(">> \o list \o <<"),">> \o Ref(context) \o <<")">>
RECURSIVE IdList(_)
\* The comma-separated references of write_mechanical_part_entries.
IdList(ids) ==
    IF ids = <<>> THEN <<>>
    ELSE IF Len(ids) = 1 THEN Ref(ids[1])
    ELSE IdList(SubSeq(ids, 1, Len(ids) - 1)) \o <<",">> \o Ref(ids[Len(ids)])

\* The entries of write_mechanical_part_entries, from the id of the first.
MechanicalPartEntries(mechanical_design_ids, length) ==
    << LengthUnit, RadianUnit, PlaneAngleMeasureWithUnit(length + 1),
       DimensionalExponents, DegreeUnit(length + 3), SteradianUnit,
       TailUncertainty(length),
       GeometricRepresentationContext(length + 6, length, length + 4, length + 5),
       MechanicalDesign(IdList(mechanical_design_ids), length + 7) >>

\* A tail without its MECHANICAL_DESIGN_GEOMETRIC_PRESENTATION_REPRESENTATION.
write_mechanical_part_entries_short(m, fail) ==
    add_entries(m, SubSeq(MechanicalPartEntries(m.mechanical_design_ids,
                                                get_new_id(m.id_counter)), 1, 8),
                fail, <<>>)

\* write_mechanical_part_entries.
write_mechanical_part_entries(m, fail) ==
    add_entries(m, MechanicalPartEntries(m.mechanical_design_ids, get_new_id(m.id_counter)),
                fail, <<>>)

(***************************************************************************)
(* BufferedIterator (merge/buffered_iterator.rs).  The underlying iterator *)
(* is the sequence of the items it has not produced yet.                   *)
(***************************************************************************)
BufferedIterator_new(iterator) ==
    [buffer |-> <<>>, iterator |-> iterator, mode |-> "Normal", index |-> 0]

set_buffering_mode(it) == [it EXCEPT !.buffer = <<>>, !.mode = "FillBuffer", !.index = 0]

\* A reset that starts the replay behind the first buffered item.
reset_skipping(it) ==
    IF it.mode = "FillBuffer" THEN [it EXCEPT !.mode = "ReadBuffer", !.index = 1] ELSE it

reset(it) ==
    IF it.mode = "FillBuffer" THEN [it EXCEPT !.mode = "ReadBuffer", !.index = 0] ELSE it

NoItem == [ok |-> FALSE, entry |-> [id |-> 0, definition |-> <<>>]]

\* Iterator::next of the underlying iterator.
inner_next(it) ==
    IF it.iterator = <<>> THEN [some |-> FALSE, item |-> NoItem, it |-> it]
    ELSE [some |-> TRUE, item |-> Head(it.iterator),
          it |-> [it EXCEPT !.iterator = Tail(it.iterator)]]

\* The FillBuffer arm of next: keep a copy of the item just produced.
buffered(r) == IF r.some THEN [r EXCEPT !.it.buffer = Append(@, r.item)] ELSE r

\* A next that, once the buffer is replayed, pulls an item of the
\* underlying iterator and returns the one behind it.
BufferedIterator_next_dropping(it) ==
    CASE it.mode = "Normal" -> inner_next(it)
      [] it.mode = "FillBuffer" -> buffered(inner_next(it))
      [] OTHER ->
            IF it.index < Len(it.buffer)
            THEN [some |-> TRUE, item |-> it.buffer[it.index + 1],
                  it |-> [it EXCEPT !.index = @ + 1]]
            ELSE inner_next(inner_next([it EXCEPT !.mode = "Normal", !.index = 0]).it)

\* BufferedIterator::next.
BufferedIterator_next(it) ==
    CASE it.mode = "Normal" -> inner_next(it)
      [] it.mode = "FillBuffer" -> buffered(inner_next(it))
      [] OTHER ->
            IF it.index < Len(it.buffer)
            THEN [some |-> TRUE, item |-> it.buffer[it.index + 1],
                  it |-> [it EXCEPT !.index = @ + 1]]
            ELSE inner_next([it EXCEPT !.mode = "Normal", !.index = 0])

(***************************************************************************)
(* Text predicates used on definitions                                     *)
(***************************************************************************)
is_whitespace(c) == c \in {" ", "\n", "\t", "\r"}

RECURSIVE trim_start(_)
trim_start(text) ==
    IF text # <<>> /\ is_whitespace(Head(text)) THEN trim_start(Tail(text)) ELSE text

\* str::starts_with for a keyword: keywords are atoms, and no atom of the
\* model has a keyword as a proper prefix.
starts_with(text, keyword) == text # <<>> /\ Head(text) = keyword

\* The atoms made of ASCII upper-case letters and underscores only.
UpperAtoms ==
    {"APPLICATION_CONTEXT", "APPLICATION_PROTOCOL_DEFINITION", "PRODUCT",
     "PRODUCT_DEFINITION", "PRODUCT_DEFINITION_SHAPE", "SHAPE_REPRESENTATION",
     "SHAPE_DEFINITION_REPRESENTATION", "NEXT_ASSEMBLY_USAGE_OCCURRENCE",
     "MECHANICAL_DESIGN_GEOMETRIC_PRESENTATION_REPRESENTATION", "STYLED_ITEM",
     "A", "B", "C", "D", "E", "I", "N", "O", "S", "T", "_"}

RECURSIVE KeywordRun(_)
KeywordRun(text) ==
    IF text # <<>> /\ Head(text) \in UpperAtoms
    THEN <<Head(text)>> \o KeywordRun(Tail(text)) ELSE <<>>

\* FindRootNodes::extract_keyword: the leading run of upper-case letters and
\* underscores of the trimmed definition.
extract_keyword(definition) == KeywordRun(trim_start(definition))

(***************************************************************************)
(* FindRootNodes (merge/root_nodes.rs) and merge/utils.rs.  A HashMap is   *)
(* the set of its <<key, value>> pairs.                                    *)
(***************************************************************************)
MapInsert(map, k, v) == {p \in map : p[1] # k} \cup {<<k, v>>}
MapHas(map, k) == \E p \in map : p[1] = k
MapGet(map, k) == (CHOOSE p \in map : p[1] = k)[2]

FindRootNodes_new ==
    [shape_def_rep_to_shape_rep |-> {}, prod_def_shape_to_shape_def_rep |-> {},
     prod_def_to_prod_def_shape |-> <<>>, prod_def_assembly_occurrences |-> {}]

\* FindRootNodes::add_entry, from the keyword and the references of the entry.
root_nodes_add(frn, id, keyword, references) ==
    CASE keyword = <<"SHAPE_DEFINITION_REPRESENTATION">> ->
            IF Len(references) # 2 THEN frn
            ELSE [frn EXCEPT
                    !.shape_def_rep_to_shape_rep = MapInsert(@, id, references[2]),
                    !.prod_def_shape_to_shape_def_rep = MapInsert(@, references[1], id)]
      [] keyword = <<"PRODUCT_DEFINITION_SHAPE">> ->
            IF references = <<>> THEN frn
            ELSE [frn EXCEPT !.prod_def_to_prod_def_shape =
                                Append(@, <<references[Len(references)], id>>)]
      [] keyword = <<"NEXT_ASSEMBLY_USAGE_OCCURRENCE">> ->
            IF Len(references) # 2 THEN frn
            ELSE [frn EXCEPT !.prod_def_assembly_occurrences = @ \cup {references[2]}]
      [] OTHER -> frn

\* FindRootNodes::add_entry.
FindRootNodes_add_entry(frn, entry) ==
    root_nodes_add(frn, entry.id, extract_keyword(entry.definition),
                   get_references(entry).refs)

\* The root node of one (PRODUCT_DEFINITION, PRODUCT_DEFINITION_SHAPE) pair,
\* as a list of at most one element.
root_node_of(frn, prod_def_id, prod_def_shape_id) ==
    IF prod_def_id \in frn.prod_def_assembly_occurrences THEN <<>>
    ELSE IF ~MapHas(frn.prod_def_shape_to_shape_def_rep, prod_def_shape_id) THEN <<>>
    ELSE IF ~MapHas(frn.shape_def_rep_to_shape_rep,
                    MapGet(frn.prod_def_shape_to_shape_def_rep, prod_def_shape_id))
    THEN <<>>
    ELSE <<NodeStepIds(prod_def_id,
                       MapGet(frn.shape_def_rep_to_shape_rep,
                              MapGet(frn.prod_def_shape_to_shape_def_rep,
                                     prod_def_shape_id)))>>

RECURSIVE root_nodes_from(_, _)
root_nodes_from(frn, pairs) ==
    IF pairs = <<>> THEN <<>>
    ELSE root_node_of(frn, Head(pairs)[1], Head(pairs)[2])
         \o root_nodes_from(frn, Tail(pairs))

\* A get_root_nodes that does not look at the has-parent markers.
get_root_nodes_with_children(frn) ==
    root_nodes_from([frn EXCEPT !.prod_def_assembly_occurrences = {}],
                    frn.prod_def_to_prod_def_shape)

\* FindRootNodes::get_root_nodes.
get_root_nodes(frn) == root_nodes_from(frn, frn.prod_def_to_prod_def_shape)

\* get_ids_from_mechanical_part, from the references of the entry: all of
\* them but the last one are appended.
ids_without_last(entry_ids, ids) ==
    IF entry_ids = <<>> THEN ids ELSE ids \o SubSeq(entry_ids, 1, Len(entry_ids) - 1)

\* A collection that keeps the last reference of the entry.
get_ids_from_mechanical_part_keeping_last(entry, ids) == ids \o get_references(entry).refs

get_ids_from_mechanical_part(entry, ids) ==
    ids_without_last(get_references(entry).refs, ids)

(***************************************************************************)
(* The import of a referenced file (merge/mod.rs)                          *)
(***************************************************************************)
\* The closure update_id of load_and_add_step_entries.
update_id(app_context_id, id_offset) ==
    [a |-> 1, b |-> id_offset, app |-> app_context_id, to |-> 1]

Max(a, b) == IF a >= b THEN a ELSE b

RECURSIVE find_app_context(_)
RECURSIVE app_context_in(_)
\* The body of the first loop of load_and_add_step_entries on the result r
\* of next.
app_context_in(r) ==
    IF ~r.some THEN [it |-> r.it, app_context_id |-> 0, err |-> FALSE]
    ELSE IF ~r.item.ok THEN [it |-> r.it, app_context_id |-> 0, err |-> TRUE]
    ELSE IF starts_with(trim_start(r.item.entry.definition), "APPLICATION_CONTEXT")
    THEN [it |-> r.it, app_context_id |-> r.item.entry.id, err |-> FALSE]
    ELSE find_app_context(r.it)

\* The first loop of load_and_add_step_entries: read up to the first
\* APPLICATION_CONTEXT entry.
find_app_context(it) == app_context_in(BufferedIterator_next(it))

\* The state of the second loop of load_and_add_step_entries:
\* [m, it, f, max_id, frn, fail, err, panic].
RECURSIVE stream_entries(_)

\* The end of an iteration that wrote new_entry: w is what add_entry_full
\* returned.
entry_streamed(s, new_entry, w) ==
    IF w.panic THEN [s EXCEPT !.m = w.m, !.panic = TRUE]
    ELSE IF w.err THEN [s EXCEPT !.m = w.m, !.err = "write"]
    ELSE stream_entries([s EXCEPT !.m = w.m, !.fail = @ - 1,
                                  !.frn = FindRootNodes_add_entry(@, new_entry)])

\* An iteration from the patched entry on; definition is the trimmed
\* definition of the entry read.
entry_updated(s, definition, updated) ==
    IF updated.panic THEN [s EXCEPT !.panic = TRUE]
    ELSE IF starts_with(definition,
                        "MECHANICAL_DESIGN_GEOMETRIC_PRESENTATION_REPRESENTATION")
    THEN stream_entries(
            [s EXCEPT !.max_id = Max(@, updated.id),
                      !.m.mechanical_design_ids =
                          get_ids_from_mechanical_part(
                              StepEntry(updated.id, updated.definition), @)])
    ELSE entry_streamed([s EXCEPT !.max_id = Max(@, updated.id)],
                        StepEntry(updated.id, updated.definition),
                        add_entry_full(s.m, StepEntry(updated.id, updated.definition),
                                       IF s.fail = 1 THEN 1 ELSE 0))

\* An iteration on the entry read.
entry_read(s, entry, definition) ==
    IF \/ starts_with(definition, "APPLICATION_CONTEXT")
       \/ starts_with(definition, "APPLICATION_PROTOCOL_DEFINITION")
    THEN stream_entries(s)
    ELSE entry_updated(s, definition, update_references(entry, s.f))

\* An iteration on the result r of next.
item_read(s, r) ==
    IF ~r.some THEN s
    ELSE IF ~r.item.ok THEN [s EXCEPT !.err = "reader"]
    ELSE entry_read([s EXCEPT !.it = r.it], r.item.entry,
                    trim_start(r.item.entry.definition))

\* The second loop of load_and_add_step_entries.
stream_entries(s) == item_read(s, BufferedIterator_next(s.it))

\* The end of load_and_add_step_entries: the counter moves to the largest
\* id seen and the root nodes are collected.
entries_streamed(s) ==
    IF s.panic \/ s.err # ""
    THEN [m |-> s.m, err |-> s.err, panic |-> s.panic, root_nodes |-> <<>>]
    ELSE [m |-> [s.m EXCEPT !.id_counter = s.max_id], err |-> "", panic |-> FALSE,
          root_nodes |-> get_root_nodes(s.frn)]

\* load_and_add_step_entries after its first loop, without the check of
\* app_context_id.
app_context_found_unchecked(m, first, fail) ==
    IF first.err THEN [m |-> m, err |-> "reader", panic |-> FALSE, root_nodes |-> <<>>]
    ELSE entries_streamed(stream_entries(
            [m |-> m, it |-> reset(first.it),
             f |-> update_id(first.app_context_id, m.id_counter),
             max_id |-> 0, frn |-> FindRootNodes_new, fail |-> fail,
             err |-> "", panic |-> FALSE]))

\* load_and_add_step_entries after its first loop.
app_context_found(m, first, fail) ==
    IF first.err THEN [m |-> m, err |-> "reader", panic |-> FALSE, root_nodes |-> <<>>]
    ELSE IF first.app_context_id = 0
    THEN [m |-> m, err |-> "AppContextMissing", panic |-> FALSE, root_nodes |-> <<>>]
    ELSE entries_streamed(stream_entries(
            [m |-> m, it |-> reset(first.it),
             f |-> update_id(first.app_context_id, m.id_counter),
             max_id |-> 0, frn |-> FindRootNodes_new, fail |-> fail,
             err |-> "", panic |-> FALSE]))

\* load_and_add_step_entries.  `err` names the error returned ("" for Ok).
load_and_add_step_entries(m, entries, fail) ==
    app_context_found(m, find_app_context(set_buffering_mode(BufferedIterator_new(entries))),
                      fail)

\* load_and_add_step.  `source` is what the resolver and the reader make of
\* the link: whether the resolver returned a stream, whether STEPReader::new
\* accepted it, and the items the reader then yields.
load_and_add_step(m, source, fail) ==
    IF ~source.resolved
    THEN [m |-> m, err |-> "resolver", panic |-> FALSE, root_nodes |-> <<>>]
    ELSE IF ~source.readable
    THEN [m |-> m, err |-> "reader", panic |-> FALSE, root_nodes |-> <<>>]
    ELSE load_and_add_step_entries(m, source.entries, fail)

(***************************************************************************)
(* The inputs of a merge: assemblies, and what the resolver and the reader *)
(* make of a link.  An item of a file is Ok(entry) or an error of the      *)
(* reader.                                                                 *)
(***************************************************************************)
MaxNodes == 2
MaxMetadata == 1
MaxSinkFaults == 1
MaxFailPos == 3

Links == {"a.stp", "b.stp"}

LabelChars == <<"A", "B", "C", "D">>

ShiftedMatrix == <<1, 0, 0, 0,  0, 1, 0, 0,  0, 0, 1, 0,  1, 2, 3, 1>>

MetadataLists == {[i \in 1..n |-> [key |-> <<"k">>, value |-> <<"v">>]] : n \in 0..MaxMetadata}

\* The nodes that may stand at position i of an assembly of n nodes: only
\* the first node carries metadata, a node has no child or the next node
\* as its child, and only a child is moved.
NodeChoices(i, n) ==
    {Node(<<LabelChars[i]>>, link, metadata, transform, children) :
        link \in {<<>>} \cup {<<l>> : l \in Links},
        metadata \in (IF i = 1 THEN MetadataLists ELSE {<<>>}),
        transform \in (IF i > 1 THEN {identity_matrix, ShiftedMatrix} ELSE {identity_matrix}),
        children \in (IF i < n THEN {<<>>, <<i + 1>>} ELSE {<<>>})}

RECURSIVE NodeLists(_, _)
NodeLists(i, n) ==
    IF i > n THEN {<<>>}
    ELSE {<<node>> \o rest : node \in NodeChoices(i, n), rest \in NodeLists(i + 1, n)}

IsChild(nodes, i) == \E p \in 1..Len(nodes) : \E c \in 1..Len(nodes[p].children) : nodes[p].children[c] = i

Assemblies ==
    {nodes \in UNION {NodeLists(1, n) : n \in 0..MaxNodes} :
        \A i \in 1..Len(nodes) : nodes[i].transform # identity_matrix => IsChild(nodes, i)}

FileStyledItem ==
    [ok |-> TRUE, entry |-> StepEntry(9,
            <<"STYLED_ITEM", "(", "'", "'", ")">>)]

FileApplicationContext ==
    [ok |-> TRUE, entry |-> StepEntry(1,
            <<"APPLICATION_CONTEXT", "(", "'", "x", "'", ")">>)]

FileApplicationProtocolDefinition ==
    [ok |-> TRUE, entry |-> StepEntry(2,
            <<"APPLICATION_PROTOCOL_DEFINITION", "(", "'", "'", ",", "#",
               "1", ")">>)]

FileProductDefinition ==
    [ok |-> TRUE, entry |-> StepEntry(5,
            <<"PRODUCT_DEFINITION", "(", "'", "'", ",", "#", "1", ")">>)]

FileProductDefinitionShape ==
    [ok |-> TRUE, entry |-> StepEntry(6,
            <<"PRODUCT_DEFINITION_SHAPE", "(", "'", "'", ",$,", "#", "5",
               ")">>)]

FileShapeRepresentation ==
    [ok |-> TRUE, entry |-> StepEntry(7,
            <<" ", "SHAPE_REPRESENTATION", "(", "'", "'", ",(", "#", "9",
               "))">>)]

FileShapeDefinitionRepresentation ==
    [ok |-> TRUE, entry |-> StepEntry(8,
            <<"SHAPE_DEFINITION_REPRESENTATION", "(", "#", "6", ",", "#",
               "7", ")">>)]

FileMechanicalDesign ==
    [ok |-> TRUE, entry |-> StepEntry(10,
            <<"MECHANICAL_DESIGN_GEOMETRIC_PRESENTATION_REPRESENTATION", "(",
               "'", "'", ",(", "#", "9", "),", "#", "3", ")">>)]

ReaderError == [ok |-> FALSE, entry |-> [id |-> 0, definition |-> <<>>]]

Source(resolved, readable, entries) ==
    [resolved |-> resolved, readable |-> readable, entries |-> entries]

\* The resolver fails on the link.
SourceMissing == Source(FALSE, FALSE, <<>>)

\* STEPReader::new rejects the stream.
SourceUnreadable == Source(TRUE, FALSE, <<>>)

\* A file with one part; an entry precedes its APPLICATION_CONTEXT and the
\* ids are neither ordered nor dense.
SourceGood ==
    Source(TRUE, TRUE,
           <<FileStyledItem, FileApplicationContext, FileApplicationProtocolDefinition,
             FileProductDefinition, FileProductDefinitionShape, FileShapeRepresentation,
             FileShapeDefinitionRepresentation, FileMechanicalDesign>>)

\* A file without an APPLICATION_CONTEXT.
SourceNoContext == Source(TRUE, TRUE, <<FileProductDefinition, FileStyledItem>>)

\* A file with nothing but its application context and protocol.
SourceOnlyContext ==
    Source(TRUE, TRUE, <<FileApplicationContext, FileApplicationProtocolDefinition>>)

\* A file on which the reader fails after two entries.
SourceBroken ==
    Source(TRUE, TRUE, <<FileApplicationContext, FileProductDefinition, ReaderError>>)

\* An entry whose definition is nothing but a reference (`#3=#1;`).
FileBareReference == [ok |-> TRUE, entry |-> StepEntry(3, <<"#", "1">>)]

\* A file whose last entry ends with a reference.
SourceBareReference ==
    Source(TRUE, TRUE, <<FileApplicationContext, FileStyledItem, FileBareReference>>)

\* The APPLICATION_CONTEXT of a file that has a blank after the `=`
\* (`#1= APPLICATION_CONTEXT('x');`).
FileSpacedApplicationContext ==
    [ok |-> TRUE, entry |-> StepEntry(1,
            <<" ", "APPLICATION_CONTEXT", "(", "'", "x", "'", ")">>)]

\* A file whose APPLICATION_CONTEXT follows a blank.
SourceSpacedContext ==
    Source(TRUE, TRUE, <<FileSpacedApplicationContext, FileProductDefinition>>)

\* A file without APPLICATION_CONTEXT on which the reader fails after one
\* entry.
SourceNoContextBroken == Source(TRUE, TRUE, <<FileStyledItem, ReaderError>>)

Sources ==
    {SourceMissing, SourceUnreadable, SourceGood, SourceNoContext, SourceOnlyContext,
     SourceBroken, SourceBareReference, SourceSpacedContext, SourceNoContextBroken}

Unknown == Source(FALSE, TRUE, <<>>)

(***************************************************************************)
(* StepMerger::merge, one step per call it makes.  The state of a merge    *)
(* is the record `st` of the merger and of the local variables of merge:   *)
(* [merger, node_step_ids, reference_map, pc, k, result, resolver_calls,   *)
(* imports, faults].  pc names the call that comes next, k counts the      *)
(* iterations of the loop that makes it.                                   *)
(***************************************************************************)
RECURSIVE PairsFrom(_, _, _)
\* The <<parent, child>> positions in the order of the loops at lines 177-195.
PairsFrom(nodes, i, c) ==
    IF i > Len(nodes) THEN <<>>
    ELSE IF c > Len(nodes[i].children) THEN PairsFrom(nodes, i + 1, 1)
    ELSE <<<<i, nodes[i].children[c]>>>> \o PairsFrom(nodes, i, c + 1)

RelationPairs(nodes) == PairsFrom(nodes, 1, 1)

\* The positions of the nodes that carry a link.
LinkedNodes(nodes) == SelectSeq([i \in 1..Len(nodes) |-> i], LAMBDA i : nodes[i].link # <<>>)

RECURSIVE ReferencePairsFrom(_, _, _, _)
\* The <<node, root>> pairs in the order of the loops at lines 228-242.
ReferencePairsFrom(nodes, map, i, r) ==
    IF i > Len(nodes) THEN <<>>
    ELSE IF nodes[i].link = <<>> \/ ~MapHas(map, nodes[i].link[1])
    THEN ReferencePairsFrom(nodes, map, i + 1, 1)
    ELSE LET root_nodes == MapGet(map, nodes[i].link[1])
         IN  IF r > Len(root_nodes) THEN ReferencePairsFrom(nodes, map, i + 1, 1)
             ELSE <<<<i, root_nodes[r]>>>> \o ReferencePairsFrom(nodes, map, i, r + 1)

ReferencePairs(nodes, map) == ReferencePairsFrom(nodes, map, 1, 1)

Phases ==
    <<"create_app_context", "create_default_coordinate_system", "create_node",
      "create_parent_child_relation", "load_and_add_step", "reference_relation",
      "write_mechanical_part_entries", "finalize", "returned">>

PhaseIndex(pc) == CHOOSE p \in 1..Len(Phases) : Phases[p] = pc

\* The number of calls a phase makes.
PhaseCount(pc, st, nodes, load) ==
    CASE pc = "create_node" -> Len(nodes)
      [] pc = "create_parent_child_relation" -> Len(RelationPairs(nodes))
      [] pc = "load_and_add_step" -> IF load THEN Len(LinkedNodes(nodes)) ELSE 0
      [] pc = "reference_relation" ->
            IF load THEN Len(ReferencePairs(nodes, st.reference_map)) ELSE 0
      [] OTHER -> 1

RECURSIVE FirstPhaseFrom(_, _, _, _)
FirstPhaseFrom(p, st, nodes, load) ==
    IF PhaseCount(Phases[p], st, nodes, load) > 0 THEN p
    ELSE FirstPhaseFrom(p + 1, st, nodes, load)

\* The start of phase p.
EnterPhase(st, p) ==
    [st EXCEPT !.pc = Phases[p], !.k = 1,
               !.result = IF Phases[p] = "returned" THEN "Ok" ELSE @]

\* The position in merge after the call at st.pc, st.k has returned Ok.
Advance(st, nodes, load) ==
    IF st.k < PhaseCount(st.pc, st, nodes, load)
    THEN [st EXCEPT !.k = @ + 1]
    ELSE EnterPhase(st, FirstPhaseFrom(PhaseIndex(st.pc) + 1, st, nodes, load))

\* The `?` after a call of merge: an error ends merge with Err, a panic
\* unwinds it, Ok goes on to the next call.
Continue(st, r, nodes, load) ==
    IF r.panic THEN [st EXCEPT !.merger = r.m, !.pc = "returned", !.result = "panic"]
    ELSE IF r.err
    THEN [st EXCEPT !.merger = r.m, !.pc = "returned", !.result = "Err", !.faults = @ + 1]
    ELSE Advance([st EXCEPT !.merger = r.m], nodes, load)

NewMerger(writer) ==
    [writer |-> writer, id_counter |-> 0, default_coordinate_system |-> 0,
     mechanical_design_ids |-> <<>>]

StateAtStart ==
    [merger |-> NewMerger([writer |-> <<>>, is_finalized |-> FALSE]),
     node_step_ids |-> <<>>, reference_map |-> {}, pc |-> "new", k |-> 1,
     result |-> "", resolver_calls |-> <<>>, imports |-> <<>>, faults |-> 0]

\* StepMerger::new once StepWriter::new has returned r.
merger_created(st, r) ==
    IF r.err
    THEN [st EXCEPT !.merger = NewMerger(r.w), !.pc = "dropped", !.result = "Err",
                    !.faults = @ + 1]
    ELSE [st EXCEPT !.merger = NewMerger(r.w), !.pc = "create_app_context"]

\* StepMerger::new.
StepMerger_new(st, fail) ==
    merger_created(st, StepWriter_new(<<>>, ImplementationLevel, <<>>, ProtocolText, fail, 0))

step_create_app_context(st, nodes, load, fail) ==
    Continue(st, create_app_context(st.merger, fail), nodes, load)

step_create_default_coordinate_system(st, nodes, load, fail) ==
    Continue(st, create_default_coordinate_system(st.merger, fail), nodes, load)

\* The loop at lines 158-169 once create_node has returned r.
node_pushed(st, r, nodes, load) ==
    Continue([st EXCEPT !.node_step_ids =
                            IF r.err \/ r.panic THEN @ ELSE Append(@, r.node_ids)],
             r, nodes, load)

step_create_node(st, nodes, load, fail) ==
    node_pushed(st, create_node(st.merger, nodes[st.k], fail), nodes, load)

\* The call at lines 183-192 for the pair <<parent, child>>.
relation_of(st, nodes, pair, fail) ==
    create_parent_child_relation(st.merger, nodes[pair[1]].label, nodes[pair[2]].label,
                                 st.node_step_ids[pair[1]], st.node_step_ids[pair[2]],
                                 nodes[pair[2]].transform, fail)

step_create_parent_child_relation(st, nodes, load, fail) ==
    Continue(st, relation_of(st, nodes, RelationPairs(nodes)[st.k], fail), nodes, load)

\* One iteration of the loop at lines 203-223; `source` is what the resolver
\* returns for the link of the node.
\* A loop in which an error of load_and_add_step ends the merge.
step_loaded_aborting(st, link, r, nodes, load) ==
    IF r.panic THEN [st EXCEPT !.merger = r.m, !.pc = "returned", !.result = "panic"]
    ELSE IF r.err # ""
    THEN [st EXCEPT !.merger = r.m, !.pc = "returned", !.result = "Err"]
    ELSE Advance([st EXCEPT !.merger = r.m,
                            !.reference_map = MapInsert(@, link, r.root_nodes)],
                 nodes, load)

\* The match at lines 209-218 on the result r of load_and_add_step: Ok
\* records the root nodes of the link, Err is logged and the loop goes on.
step_loaded(st, link, r, nodes, load) ==
    IF r.panic THEN [st EXCEPT !.merger = r.m, !.pc = "returned", !.result = "panic"]
    ELSE IF r.err # "" THEN Advance([st EXCEPT !.merger = r.m], nodes, load)
    ELSE Advance([st EXCEPT !.merger = r.m,
                            !.reference_map = MapInsert(@, link, r.root_nodes)],
                 nodes, load)

\* The number of entries that the sink of merger m holds.
EntriesWritten(m) == Cardinality({i \in 1..Len(m.writer.writer) : m.writer.writer[i].kind = "entry"})

\* What the model records of a call of load_and_add_step: the link, the
\* error it returned ("" for Ok) and the number of entries it wrote.
step_called(st, link, r) ==
    [st EXCEPT !.resolver_calls = Append(@, link),
               !.imports = Append(@, [link |-> link, err |-> r.err,
                                      written |-> EntriesWritten(r.m)
                                                    - EntriesWritten(st.merger)]),
               !.faults = IF r.err = "write" THEN @ + 1 ELSE @]

step_load_link(st, link, r, nodes, load) ==
    step_loaded(step_called(st, link, r), link, r, nodes, load)

step_link(st, link, nodes, load, source, fail) ==
    IF MapHas(st.reference_map, link) THEN Advance(st, nodes, load)
    ELSE step_load_link(st, link, load_and_add_step(st.merger, source, fail), nodes, load)

step_load_and_add_step(st, nodes, load, source, fail) ==
    step_link(st, nodes[LinkedNodes(nodes)[st.k]].link[1], nodes, load, source, fail)

\* The call at lines 232-239 for the pair <<node, root>>.
reference_relation_of(st, nodes, pair, fail) ==
    create_parent_child_relation(st.merger, nodes[pair[1]].label, nodes[pair[1]].label,
                                 st.node_step_ids[pair[1]], pair[2], identity_matrix, fail)

step_reference_relation(st, nodes, load, fail) ==
    Continue(st,
             reference_relation_of(st, nodes,
                                   ReferencePairs(nodes, st.reference_map)[st.k], fail),
             nodes, load)

step_write_mechanical_part_entries(st, nodes, load, fail) ==
    Continue(st, write_mechanical_part_entries(st.merger, fail), nodes, load)

finalized(st, r, nodes, load) ==
    Continue(st, [m |-> [st.merger EXCEPT !.writer = r.w], err |-> r.err, panic |-> FALSE],
             nodes, load)

step_finalize(st, nodes, load, fail) ==
    finalized(st, finalize(st.merger.writer, fail), nodes, load)

\* The merger goes out of scope: its writer is dropped.
step_drop(st, fail) ==
    [st EXCEPT !.merger.writer = drop(@, fail), !.pc = "dropped"]

\* The next call of a merge on a sink that accepts every write, with the
\* resolver `res`.
merge_step(st, nodes, load, res) ==
    CASE st.pc = "new" -> StepMerger_new(st, 0)
      [] st.pc = "create_app_context" -> step_create_app_context(st, nodes, load, 0)
      [] st.pc = "create_default_coordinate_system" ->
            step_create_default_coordinate_system(st, nodes, load, 0)
      [] st.pc = "create_node" -> step_create_node(st, nodes, load, 0)
      [] st.pc = "create_parent_child_relation" ->
            step_create_parent_child_relation(st, nodes, load, 0)
      [] st.pc = "load_and_add_step" ->
            step_load_and_add_step(st, nodes, load,
                                   res[nodes[LinkedNodes(nodes)[st.k]].link[1]], 0)
      [] st.pc = "reference_relation" -> step_reference_relation(st, nodes, load, 0)
      [] st.pc = "write_mechanical_part_entries" ->
            step_write_mechanical_part_entries(st, nodes, load, 0)
      [] st.pc = "finalize" -> step_finalize(st, nodes, load, 0)
      [] OTHER -> step_drop(st, 0)

RECURSIVE merge_from(_, _, _, _)
merge_from(st, nodes, load, res) ==
    IF st.pc = "dropped" THEN st ELSE merge_from(merge_step(st, nodes, load, res), nodes, load, res)

\* merge_assembly_structure_to_step_with_resolver on a sink that accepts
\* every write: the state in which it leaves the merger and the sink.
merge_assembly_structure_to_step_with_resolver(nodes, load, res) ==
    merge_from(StateAtStart, nodes, load, res)

(***************************************************************************)
(* Specification of a merge: an assembly and load_references are chosen at *)
(* the start; the resolver is a function of the link, and what it returns  *)
(* for a link is chosen when the link is resolved for the first time.  The *)
(* sink rejects at most MaxSinkFaults writes, each among the first         *)
(* MaxFailPos writes of a call.                                            *)
(***************************************************************************)
State ==
    [merger |-> merger, node_step_ids |-> node_step_ids, reference_map |-> reference_map,
     pc |-> m_pc, k |-> m_k, result |-> m_result, resolver_calls |-> resolver_calls,
     imports |-> imports, faults |-> sink_faults]

SetState(st) ==
    /\ merger' = st.merger
    /\ node_step_ids' = st.node_step_ids
    /\ reference_map' = st.reference_map
    /\ m_pc' = st.pc
    /\ m_k' = st.k
    /\ m_result' = st.result
    /\ resolver_calls' = st.resolver_calls
    /\ imports' = st.imports
    /\ sink_faults' = st.faults

Faults == IF sink_faults < MaxSinkFaults THEN 0..MaxFailPos ELSE {0}

MergeInit ==
    /\ EntryIdle
    /\ WriterIdle
    /\ PlainIdle
    /\ ReaderIdle
    /\ HelpersIdle
    /\ assembly \in Assemblies
    /\ load_references \in BOOLEAN
    /\ resolver = [l \in Links |-> Unknown]
    /\ merger = StateAtStart.merger
    /\ node_step_ids = <<>>
    /\ reference_map = {}
    /\ m_pc = "new"
    /\ m_k = 1
    /\ m_result = ""
    /\ resolver_calls = <<>>
    /\ imports = <<>>
    /\ sink_faults = 0

MergerNew ==
    /\ m_pc = "new"
    /\ \E fail \in Faults : SetState(StepMerger_new(State, fail))
    /\ UNCHANGED mg_inputs
    /\ UNCHANGED NotMerge

CreateAppContext ==
    /\ m_pc = "create_app_context"
    /\ \E fail \in Faults :
         SetState(step_create_app_context(State, assembly, load_references, fail))
    /\ UNCHANGED mg_inputs
    /\ UNCHANGED NotMerge

CreateDefaultCoordinateSystem ==
    /\ m_pc = "create_default_coordinate_system"
    /\ \E fail \in Faults :
         SetState(step_create_default_coordinate_system(State, assembly, load_references, fail))
    /\ UNCHANGED mg_inputs
    /\ UNCHANGED NotMerge

CreateNode ==
    /\ m_pc = "create_node"
    /\ \E fail \in Faults :
         SetState(step_create_node(State, assembly, load_references, fail))
    /\ UNCHANGED mg_inputs
    /\ UNCHANGED NotMerge

CreateParentChildRelation ==
    /\ m_pc = "create_parent_child_relation"
    /\ \E fail \in Faults :
         SetState(step_create_parent_child_relation(State, assembly, load_references, fail))
    /\ UNCHANGED mg_inputs
    /\ UNCHANGED NotMerge

LoadAndAddStep ==
    /\ m_pc = "load_and_add_step"
    /\ LET link == assembly[LinkedNodes(assembly)[m_k]].link[1]
           loaded == MapHas(reference_map, link)
       IN  \E source \in (IF loaded THEN {Unknown}
                          ELSE IF resolver[link] = Unknown THEN Sources
                          ELSE {resolver[link]}),
              fail \in (IF loaded THEN {0} ELSE Faults) :
              /\ SetState(step_load_and_add_step(State, assembly, load_references,
                                                 source, fail))
              /\ resolver' = IF loaded THEN resolver ELSE [resolver EXCEPT ![link] = source]
    /\ UNCHANGED <<assembly, load_references>>
    /\ UNCHANGED NotMerge

CreateReferenceRelation ==
    /\ m_pc = "reference_relation"
    /\ \E fail \in Faults :
         SetState(step_reference_relation(State, assembly, load_references, fail))
    /\ UNCHANGED mg_inputs
    /\ UNCHANGED NotMerge

WriteMechanicalPartEntries ==
    /\ m_pc = "write_mechanical_part_entries"
    /\ \E fail \in Faults :
         SetState(step_write_mechanical_part_entries(State, assembly, load_references, fail))
    /\ UNCHANGED mg_inputs
    /\ UNCHANGED NotMerge

Finalize ==
    /\ m_pc = "finalize"
    /\ \E fail \in Faults : SetState(step_finalize(State, assembly, load_references, fail))
    /\ UNCHANGED mg_inputs
    /\ UNCHANGED NotMerge

DropMerger ==
    /\ m_pc = "returned"
    /\ \E fail \in (IF merger.writer.is_finalized THEN {0} ELSE Faults) :
         SetState(step_drop(State, fail))
    /\ UNCHANGED mg_inputs
    /\ UNCHANGED NotMerge

MergeNext ==
    \/ MergerNew
    \/ CreateAppContext
    \/ CreateDefaultCoordinateSystem
    \/ CreateNode
    \/ CreateParentChildRelation
    \/ LoadAndAddStep
    \/ CreateReferenceRelation
    \/ WriteMechanicalPartEntries
    \/ Finalize
    \/ DropMerger

SpecMerge == MergeInit /\ [][MergeNext]_vars

(***************************************************************************)
(* Claims about the merge                                                  *)
(***************************************************************************)
\* The data-section entries of the output, in output order.
EntriesOf(sink) == SelectSeq(sink, LAMBDA c : c.kind = "entry")

Output == EntriesOf(merger.writer.writer)

OutputIds == [i \in 1..Len(Output) |-> Output[i].id]

\* The errors a per-file import can end with, besides a resolver failure.
ImportErrors == {"reader", "AppContextMissing", "write"}

\* C1: no two entries written to the output of a merge have the same id,
\* whatever the assembly, the referenced files and the outcome of each
\* per-file import.
C1_OutputIdsUnique ==
    \A i, j \in 1..Len(Output) : Output[i].id = Output[j].id => i = j

\* C2 as stated: the ids of the entries written to the output, in output
\* order, are 1, 2, 3, ... without a gap.
C2_IdsConsecutive == OutputIds = [i \in 1..Len(Output) |-> i]

\* No per-file import has gone further than the search for the
\* APPLICATION_CONTEXT of its file.
NothingStreamed ==
    \A i \in 1..Len(imports) : imports[i].err \in {"resolver", "AppContextMissing"}

\* C2 amended: as long as no per-file import has reached the streaming of
\* the entries of its file, the ids of the entries written to the output, in
\* output order, are 1, 2, 3, ... without a gap.
C2_IdsConsecutiveUntilStreamed == NothingStreamed => C2_IdsConsecutive

C2_Witness ==
    /\ m_pc = "dropped"
    /\ m_result = "Ok"
    /\ load_references
    /\ Len(imports) = 2
    /\ NothingStreamed
    /\ Len(Output) > 40

\* C4: whenever a per-file import ends with an error other than a resolver
\* failure, the merge returns Err; and the writer of a merge that has ended
\* is finalized.
C4_OtherErrorsAbort ==
    m_pc \in {"returned", "dropped"} =>
        /\ (\E i \in 1..Len(imports) : imports[i].err \in ImportErrors) => m_result = "Err"
        /\ m_pc = "dropped" => merger.writer.is_finalized

\* C5: during one merge the resolver is called at most once for each link.
C5_ResolverOncePerLink ==
    \A i, j \in 1..Len(resolver_calls) : resolver_calls[i] = resolver_calls[j] => i = j
\* The assembly without the link of node i.
WithoutLink(nodes, i) == [nodes EXCEPT ![i].link = <<>>]

\* The resolver failed on the link of node i.
LinkFails(i) == assembly[i].link # <<>> /\ resolver[assembly[i].link[1]] = SourceMissing

\* C6: when the resolver fails on the link of a node, a merge with
\* load_references = true on a sink that accepts every write returns Ok and
\* its data-section entries are those of the merge of the assembly without
\* the link of that node.
C6_FailingLinkAsRemoved ==
    (m_pc = "dropped" /\ load_references /\ sink_faults = 0) =>
        \A i \in 1..Len(assembly) :
            LinkFails(i) =>
                /\ m_result = "Ok"
                /\ Output = EntriesOf(merge_assembly_structure_to_step_with_resolver(
                                          WithoutLink(assembly, i), TRUE, resolver
                                      ).merger.writer.writer)

C6_Witness ==
    /\ m_pc = "dropped"
    /\ load_references
    /\ sink_faults = 0
    /\ m_result = "Ok"
    /\ Len(assembly) = 2
    /\ LinkFails(1)
    /\ \E i \in 1..Len(imports) : imports[i].err = ""
    /\ Len(Output) > 40
\* The first atom of the definition of an entry.
FirstAtom(entry) == IF entry.definition = <<>> THEN "" ELSE Head(entry.definition)

\* A merge of the empty assembly without references has returned Ok.
EmptyMergeDone ==
    m_pc = "dropped" /\ m_result = "Ok" /\ assembly = <<>> /\ ~load_references

\* The six entries every merge starts with: the application context, the
\* protocol definition that refers to it, and the default coordinate system.
PrologInPlace ==
    /\ Len(Output) >= 6
    /\ \A i \in 1..6 : Output[i].id = i
    /\ [i \in 1..6 |-> FirstAtom(Output[i])]
         = <<"APPLICATION_CONTEXT", "APPLICATION_PROTOCOL_DEFINITION", "CARTESIAN_POINT",
             "DIRECTION", "DIRECTION", "AXIS">>
    /\ get_references(Output[2]).refs = <<1>>
    /\ get_references(Output[6]).refs = <<3, 4, 5>>

\* The output ends with the aggregator tail of n entries that follows the
\* six entries of the prolog: ids 7 to 6 + n, the last entry being the
\* MECHANICAL_DESIGN_GEOMETRIC_PRESENTATION_REPRESENTATION.
TailInPlace(n) ==
    /\ Len(Output) = 6 + n
    /\ \A i \in 7..(6 + n) : Output[i].id = i
    /\ FirstAtom(Output[6 + n]) = "MECHANICAL_DESIGN_GEOMETRIC_PRESENTATION_REPRESENTATION"
    /\ \A i \in 7..(5 + n) :
          FirstAtom(Output[i]) # "MECHANICAL_DESIGN_GEOMETRIC_PRESENTATION_REPRESENTATION"

Appended(before, after) ==
    [i \in 1..(Len(after) - Len(before)) |->
        StepEntry(after[Len(before) + i].id, after[Len(before) + i].definition)]

\* A call of create_parent_child_relation for the pair of nodes at position
\* m_k of the loops has returned Ok.  The block it has written has n
\* entries with consecutive ids; its NEXT_ASSEMBLY_USAGE_OCCURRENCE has the
\* recorded product definition of the parent as first and that of the child
\* as second reference; its representation relationship refers to the
\* recorded shape representations of the child and of the parent.
RelationBlock(block, n, parent_ids, child_ids) ==
    /\ Len(block) = n
    /\ \A i \in 2..Len(block) : block[i].id = block[i - 1].id + 1
    /\ \E i \in 1..Len(block) :
          /\ FirstAtom(block[i]) = "NEXT_ASSEMBLY_USAGE_OCCURRENCE"
          /\ get_references(block[i]).refs
               = <<parent_ids.product_definition_id, child_ids.product_definition_id>>
          /\ \A j \in 1..Len(block) :
                FirstAtom(block[j]) = "NEXT_ASSEMBLY_USAGE_OCCURRENCE" => j = i
    /\ \E i \in 1..Len(block) :
          /\ Len(block[i].definition) > 1
          /\ block[i].definition[2] = "REPRESENTATION_RELATIONSHIP"
          /\ IsPrefix(<<child_ids.shape_representation_id,
                        parent_ids.shape_representation_id>>,
                      get_references(block[i]).refs)

RelationStepOf(n) ==
    (m_pc = "create_parent_child_relation" /\ m_result' \notin {"Err", "panic"}) =>
        /\ IsPrefix(Output, Output')
        /\ RelationBlock(Appended(Output, Output'), n,
                         node_step_ids[RelationPairs(assembly)[m_k][1]],
                         node_step_ids[RelationPairs(assembly)[m_k][2]])
        /\ m_pc' = "create_parent_child_relation" => m_k' = m_k + 1

ImportCalled == m_pc = "load_and_add_step" /\ Len(imports') = Len(imports) + 1

ImportRecord == imports'[Len(imports')]

ImportedFile == resolver'[ImportRecord.link]

\* The definition begins, leading whitespace aside, with the keyword.
BeginsWith(entry, keyword) == starts_with(trim_start(entry.definition), keyword)

\* The items of a file up to its first reader error.
ReadableItems(items) ==
    IF \A i \in 1..Len(items) : items[i].ok THEN items
    ELSE SubSeq(items, 1, (CHOOSE i \in 1..Len(items) :
                              ~items[i].ok /\ \A j \in 1..(i - 1) : items[j].ok) - 1)

HasAppContext(items) ==
    \E i \in 1..Len(items) : items[i].ok /\ BeginsWith(items[i].entry, "APPLICATION_CONTEXT")

\* The id of the first APPLICATION_CONTEXT entry of a file that has one.
AppContextId(items) ==
    items[CHOOSE i \in 1..Len(items) :
            /\ BeginsWith(items[i].entry, "APPLICATION_CONTEXT")
            /\ \A j \in 1..(i - 1) : ~BeginsWith(items[j].entry, "APPLICATION_CONTEXT")].entry.id

\* f(id) = 1 if id is the id of the application context, else id + offset.
Shifted(id, app_context_id, offset) == IF id = app_context_id THEN 1 ELSE id + offset

RECURSIVE ShiftedText(_, _, _, _, _)
\* The text of a definition with every reference number n outside quoted
\* strings replaced by f(n).
ShiftedText(definition, i, inString, app_context_id, offset) ==
    IF i > Len(definition) THEN <<>>
    ELSE LET c == definition[i]
             j == DigitRunEnd(definition, i + 1)
         IN  IF inString
             THEN <<c>> \o ShiftedText(definition, i + 1, c # "'", app_context_id, offset)
             ELSE IF c = "#" /\ j > i + 1
             THEN <<"#">>
                  \o to_string(Shifted(parse_u64(SubSeq(definition, i + 1, j - 1)),
                                       app_context_id, offset))
                  \o ShiftedText(definition, j, FALSE, app_context_id, offset)
             ELSE <<c>> \o ShiftedText(definition, i + 1, c = "'", app_context_id, offset)

ShiftedEntry(entry, app_context_id, offset) ==
    StepEntry(Shifted(entry.id, app_context_id, offset),
              ShiftedText(entry.definition, 1, FALSE, app_context_id, offset))

\* The entry is of one of the three kinds that an import does not write.
NotWritten(entry) ==
    \/ BeginsWith(entry, "APPLICATION_CONTEXT")
    \/ BeginsWith(entry, "APPLICATION_PROTOCOL_DEFINITION")
    \/ BeginsWith(entry, "MECHANICAL_DESIGN_GEOMETRIC_PRESENTATION_REPRESENTATION")

RECURSIVE ShiftedEntries(_, _, _)
\* What the import of a file is to write: every readable entry of the file
\* that is not of the three kinds, once and in file order, shifted.
ShiftedEntries(items, app_context_id, offset) ==
    IF items = <<>> THEN <<>>
    ELSE (IF NotWritten(Head(items).entry) THEN <<>>
          ELSE <<ShiftedEntry(Head(items).entry, app_context_id, offset)>>)
         \o ShiftedEntries(Tail(items), app_context_id, offset)

RECURSIVE RootsOf(_, _)
\* The root nodes of the entries given to a root finder one after the other.
RootsOf(entries, frn) ==
    IF entries = <<>> THEN get_root_nodes(frn)
    ELSE RootsOf(Tail(entries), FindRootNodes_add_entry(frn, Head(entries)))

\* An import that found an APPLICATION_CONTEXT has returned Ok: what it has
\* appended to the output are the entries of the file that are not of the
\* three kinds, each once, in file order and shifted by the id counter at
\* the start of the import, and the root nodes it returns are those of
\* these entries.
ImportStreamsFile ==
    (ImportCalled /\ ImportRecord.err = "") =>
        /\ HasAppContext(ImportedFile.entries)
        /\ IsPrefix(Output, Output')
        /\ Appended(Output, Output')
             = ShiftedEntries(ImportedFile.entries, AppContextId(ImportedFile.entries),
                              merger.id_counter)
        /\ MapHas(reference_map', ImportRecord.link)
        /\ MapGet(reference_map', ImportRecord.link)
             = RootsOf(Appended(Output, Output'), FindRootNodes_new)

\* C19: in an import that finds an APPLICATION_CONTEXT entry the second pass
\* handles every entry of the file once and in file order, the entries read
\* during the search for the APPLICATION_CONTEXT included: every entry that
\* is not an APPLICATION_CONTEXT, an APPLICATION_PROTOCOL_DEFINITION or a
\* MECHANICAL_DESIGN_GEOMETRIC_PRESENTATION_REPRESENTATION is written once
\* and given to the root finder, with its id and references rewritten by
\* f(id) = 1 for the id of the application context, else id + offset; the
\* entries of the three kinds are never written.
C19_SecondPassStreamsAll == [][ImportStreamsFile]_vars

\* No entry of the file ends with a reference.
NoTrailingReference(items) ==
    \A i \in 1..Len(items) : items[i].ok => ~EndsWithReference(items[i].entry.definition)

\* The same for the imports of files none of whose entries ends with a
\* reference.
C19_SecondPassStreamsAllInside ==
    [][(ImportCalled /\ NoTrailingReference(ImportedFile.entries)) => ImportStreamsFile]_vars

\* An import of a file whose first entry precedes its APPLICATION_CONTEXT
\* has returned Ok and has written that entry.
C19_Witness ==
    \E i \in 1..Len(imports) :
        /\ imports[i].err = ""
        /\ imports[i].written >= 4
        /\ ~BeginsWith(resolver[imports[i].link].entries[1].entry, "APPLICATION_CONTEXT")
        /\ HasAppContext(resolver[imports[i].link].entries)

\* The file holds no entry that begins with APPLICATION_CONTEXT and the
\* reader fails on none of its items.
NoAppContext(source) ==
    /\ source.resolved
    /\ source.readable
    /\ \A i \in 1..Len(source.entries) : source.entries[i].ok
    /\ ~HasAppContext(source.entries)

\* The import has failed with AppContextMissing and has left the output,
\* the id counter and the list of mechanical-design ids as they were.
FailedForMissingContext ==
    /\ ImportRecord.err = "AppContextMissing"
    /\ Output' = Output
    /\ merger'.id_counter = merger.id_counter
    /\ merger'.mechanical_design_ids = merger.mechanical_design_ids

ImportWithoutContextFails ==
    (ImportCalled /\ NoAppContext(ImportedFile)) => FailedForMissingContext

\* The stream holds no entry whose definition has APPLICATION_CONTEXT as
\* its very first characters.
NoEntryStartsWithAppContext(source) ==
    /\ source.resolved
    /\ source.readable
    /\ \A i \in 1..Len(source.entries) :
          source.entries[i].ok =>
              ~starts_with(source.entries[i].entry.definition, "APPLICATION_CONTEXT")

ImportWithoutLeadingContextFails ==
    (ImportCalled /\ NoEntryStartsWithAppContext(ImportedFile)) => FailedForMissingContext

\* C20 as stated: the import of an entry stream that holds no entry whose
\* definition starts with APPLICATION_CONTEXT fails with AppContextMissing
\* and writes nothing.
C20_MissingContextAsStated == [][ImportWithoutLeadingContextFails]_vars

\* C20: the import of an entry stream that the reader yields without error
\* and that has no entry that begins (leading whitespace aside) with
\* APPLICATION_CONTEXT fails with AppContextMissing;
\* no entry of the file has been written, and the id counter and the list
\* of mechanical-design ids are unchanged.
C20_MissingContextWritesNothing == [][ImportWithoutContextFails]_vars

\* Such an import has happened in a merge whose counter had moved on and
\* whose file holds entries that an import would write.
C20_Witness ==
    \E i \in 1..Len(imports) :
        /\ imports[i].err = "AppContextMissing"
        /\ resolver[imports[i].link].entries # <<>>
        /\ ~NotWritten(resolver[imports[i].link].entries[1].entry)
        /\ merger.id_counter > 6

(***************************************************************************)
(* The order of the output.  Every step of a merge appends to the output,  *)
(* so the order of the entries in the output is the order of the steps     *)
(* that wrote them.                                                        *)
(***************************************************************************)
\* The place of a position of merge in the order of emission: the prolog,
\* the default placement, the node blocks, the parent-child relations, the
\* referenced files, the relations of the imported roots, the aggregator.
RankOf(pc) ==
    IF pc = "new" THEN 0
    ELSE IF \E p \in 1..Len(Phases) : Phases[p] = pc THEN PhaseIndex(pc)
    ELSE Len(Phases) + 1

EntryIds(entries) == [i \in 1..Len(entries) |-> entries[i].id]

\* What an import appends are entries of its file in the order of the file.
ImportInFileOrder ==
    LET items == ReadableItems(ImportedFile.entries)
    IN  IF ImportedFile.resolved /\ ImportedFile.readable /\ HasAppContext(items)
        THEN IsPrefix(EntryIds(Appended(Output, Output')),
                      EntryIds(ShiftedEntries(items, AppContextId(items), merger.id_counter)))
        ELSE Output' = Output

\* No earlier import has written entries of the file.
FileNotYetWritten ==
    \A i \in 1..Len(imports) : imports[i].link = ImportRecord.link => imports[i].written = 0

\* A step of a merge keeps what is written, goes through the blocks in the
\* order of emission and through the nodes, pairs and links of a block in
\* assembly order, and writes nothing after the aggregator.
StepInEmissionOrder ==
    /\ IsPrefix(Output, Output')
    /\ m_pc' # m_pc => RankOf(m_pc) < RankOf(m_pc')
    /\ m_pc' = m_pc => m_k' = m_k + 1
    /\ RankOf(m_pc) > PhaseIndex("write_mechanical_part_entries") => Output' = Output
    /\ ImportCalled => /\ ImportRecord.link = assembly[LinkedNodes(assembly)[m_k]].link[1]
                       /\ ImportInFileOrder

\* C18: the entries are in the output in the order in which they were
\* written: the prolog and the default placement, the blocks of the nodes
\* in assembly order, the parent-child relations, the entries of every
\* referenced file in the order of the file (the files in the order of the
\* first appearance of their links, each file in one piece), the relations of
\* the imported roots, and the aggregator last.
C18_OutputOrder ==
    [][StepInEmissionOrder
         /\ ((ImportCalled /\ Output' # Output) => FileNotYetWritten)]_vars

\* The same without the demand that a file is written by one import only.
C18_OutputOrderOfSteps == [][StepInEmissionOrder]_vars

\* Two imports of the same link have both written entries of its file.
C18_FileWrittenTwice ==
    \E i, j \in 1..Len(imports) :
        /\ i < j
        /\ imports[i].link = imports[j].link
        /\ imports[i].written > 0
        /\ imports[j].written > 0


(***************************************************************************)
(* Claims about the entries of the nodes and about the aggregator tail.    *)
(***************************************************************************)
MechanicalKeyword == "MECHANICAL_DESIGN_GEOMETRIC_PRESENTATION_REPRESENTATION"

\* The references of an entry read off its text, all but the last one,
\* rewritten by f.
ItemReferences(entry, app_context_id, offset) ==
    [i \in 1..(Len(ReferencesByText(entry.definition, 1, FALSE)) - 1) |->
        Shifted(ReferencesByText(entry.definition, 1, FALSE)[i], app_context_id, offset)]

RECURSIVE CollectedFrom(_, _, _)
\* The item references of the
\* MECHANICAL_DESIGN_GEOMETRIC_PRESENTATION_REPRESENTATION entries of a
\* file, in file order.
CollectedFrom(items, app_context_id, offset) ==
    IF items = <<>> THEN <<>>
    ELSE (IF BeginsWith(Head(items).entry, MechanicalKeyword)
          THEN ItemReferences(Head(items).entry, app_context_id, offset)
          ELSE <<>>)
         \o CollectedFrom(Tail(items), app_context_id, offset)

\* An import that returns Ok appends the item references of the file to the
\* collected ids; an import that fails keeps what was collected before it,
\* and no other step changes the collected ids.
ImportCollects ==
    /\ (ImportCalled /\ ImportRecord.err = "")
           => merger'.mechanical_design_ids
                = merger.mechanical_design_ids
                    \o CollectedFrom(ImportedFile.entries, AppContextId(ImportedFile.entries),
                                     merger.id_counter)
    /\ ImportCalled => IsPrefix(merger.mechanical_design_ids, merger'.mechanical_design_ids)
    /\ ~ImportCalled => merger'.mechanical_design_ids = merger.mechanical_design_ids

\* write_mechanical_part_entries has returned Ok.
TailWritten == m_pc = "write_mechanical_part_entries" /\ m_result' \notin {"Err", "panic"}

\* The entries that write_mechanical_part_entries has appended.
TailEntries == Appended(Output, Output')

\* The tail ends with the context entry and, right behind it, the one
\* MECHANICAL_DESIGN_GEOMETRIC_PRESENTATION_REPRESENTATION entry of the
\* output, whose references are the collected ids and then the context.
TailAggregates ==
    TailWritten =>
        /\ IsPrefix(Output, Output')
        /\ Len(TailEntries) >= 2
        /\ BeginsWith(TailEntries[Len(TailEntries)], MechanicalKeyword)
        /\ TailEntries[Len(TailEntries) - 1].definition[2] = "GEOMETRIC_REPRESENTATION_CONTEXT"
        /\ TailEntries[Len(TailEntries)].id = TailEntries[Len(TailEntries) - 1].id + 1
        /\ ReferencesByText(TailEntries[Len(TailEntries)].definition, 1, FALSE)
             = merger.mechanical_design_ids \o <<TailEntries[Len(TailEntries) - 1].id>>
        /\ \A i \in 1..Len(Output') :
              BeginsWith(Output'[i], MechanicalKeyword) => i = Len(Output')

TailReferences(i) == ReferencesByText(TailEntries[i].definition, 1, FALSE)

\* The ids that a reference of the tail may name: the ids of the entries of
\* the tail and the collected ids.
TailLocalIds ==
    {TailEntries[i].id : i \in 1..Len(TailEntries)}
        \cup {merger.mechanical_design_ids[i] : i \in 1..Len(merger.mechanical_design_ids)}

\* C25: every reference in an entry of the aggregator tail is the id of an
\* entry of the same tail or a collected id.
C25_TailReferencesLocal ==
    [][TailWritten
          => \A i \in 1..Len(TailEntries) : \A k \in 1..Len(TailReferences(i)) :
                TailReferences(i)[k] \in TailLocalIds]_vars

\* What holds of the tail: the entry of the degree unit refers to the
\* dimensional exponents of the tail and to #101, whatever the ids of the
\* tail are, and every other reference of the tail is local.
C25_TailReferencesLocalButNamedUnit ==
    [][TailWritten
          => \A i \in 1..Len(TailEntries) :
                IF TailEntries[i].definition[2] = "CONVERSION_BASED_UNIT"
                THEN TailReferences(i) = <<TailEntries[i].id - 1, 101>>
                ELSE \A k \in 1..Len(TailReferences(i)) :
                        TailReferences(i)[k] \in TailLocalIds]_vars

\* The position of the one entry of the block whose definition begins with
\* the keyword.
TheEntry(block, keyword) == CHOOSE i \in 1..Len(block) : FirstAtom(block[i]) = keyword

\* A block of create_node for the node: n fixed entries and four entries
\* for every metadata pair, with consecutive ids; ids holds the ids of its
\* PRODUCT_DEFINITION and of its SHAPE_REPRESENTATION; its
\* SHAPE_DEFINITION_REPRESENTATION refers to its PRODUCT_DEFINITION_SHAPE
\* and to its SHAPE_REPRESENTATION, and its PRODUCT_DEFINITION_SHAPE to its
\* PRODUCT_DEFINITION.
NodeBlock(block, n, node, ids) ==
    /\ Len(block) = n + 4 * Len(node.metadata)
    /\ \A i \in 2..Len(block) : block[i].id = block[i - 1].id + 1
    /\ \A keyword \in {"PRODUCT_DEFINITION", "SHAPE_REPRESENTATION",
                       "PRODUCT_DEFINITION_SHAPE", "SHAPE_DEFINITION_REPRESENTATION"} :
          Cardinality({i \in 1..Len(block) : FirstAtom(block[i]) = keyword}) = 1
    /\ block[TheEntry(block, "PRODUCT_DEFINITION")].id = ids.product_definition_id
    /\ block[TheEntry(block, "SHAPE_REPRESENTATION")].id = ids.shape_representation_id
    /\ ReferencesByText(block[TheEntry(block, "SHAPE_DEFINITION_REPRESENTATION")].definition,
                        1, FALSE)
         = <<block[TheEntry(block, "PRODUCT_DEFINITION_SHAPE")].id,
             block[TheEntry(block, "SHAPE_REPRESENTATION")].id>>
    /\ ReferencesByText(block[TheEntry(block, "PRODUCT_DEFINITION_SHAPE")].definition,
                        1, FALSE)
         = <<block[TheEntry(block, "PRODUCT_DEFINITION")].id>>
    /\ Cardinality({i \in 1..Len(block) : FirstAtom(block[i]) = "PROPERTY_DEFINITION"})
         = Len(node.metadata)

\* create_node has returned Ok for the node at position m_k: it has written
\* the block of the node and has recorded its ids at position m_k.
NodeStepOf(n) ==
    (m_pc = "create_node" /\ Len(node_step_ids') = Len(node_step_ids) + 1) =>
        /\ IsPrefix(Output, Output')
        /\ Len(node_step_ids') = m_k
        /\ NodeBlock(Appended(Output, Output'), n, assembly[m_k], node_step_ids'[m_k])
        /\ m_pc' = "create_node" => m_k' = m_k + 1

\* C26 as stated: for each node, in assembly order, the merge emits a block
\* of exactly 17 fixed entries and 4 entries per metadata pair and records
\* the ids of the PRODUCT_DEFINITION and of the SHAPE_REPRESENTATION of the
\* block, whose SHAPE_DEFINITION_REPRESENTATION and PRODUCT_DEFINITION_SHAPE
\* refer to entries of the same block.
C26_BlockOfSeventeen == [][NodeStepOf(17)]_vars

\* C26 amended: the block has exactly 18 fixed entries.
C26_BlockOfEighteen == [][NodeStepOf(18)]_vars

\* A merge of two nodes, the first with a metadata pair, has returned Ok:
\* the block of the first node has 22 entries.
C26_Witness ==
    /\ m_pc = "dropped"
    /\ m_result = "Ok"
    /\ Len(assembly) = 2
    /\ Len(assembly[1].metadata) = 1
    /\ Len(node_step_ids) = 2
    /\ node_step_ids[2].product_definition_id = node_step_ids[1].product_definition_id + 22
    /\ FirstAtom(Output[node_step_ids[1].product_definition_id]) = "PRODUCT_DEFINITION"


(***************************************************************************)
(* The plain entry reader (step/reader/plain_parser, step/reader/parser.rs *)
(* and char_reader.rs).  Its input is a sequence of characters, every      *)
(* element a string of length one.  A token is [kind, ch] with kind one of *)
(* "Character", "Whitespace", "Comment", "None" (end of the input) and     *)
(* "Err".                                                                  *)
(***************************************************************************)
AsciiAlphabetic ==
    {"A", "B", "C", "D", "E", "F", "G", "H", "I", "J", "K", "L", "M", "N", "O", "P", "Q",
     "R", "S", "T", "U", "V", "W", "X", "Y", "Z", "a", "b", "c", "d", "e", "f", "g", "h",
     "i", "j", "k", "l", "m", "n", "o", "p", "q", "r", "s", "t", "u", "v", "w", "x", "y",
     "z"}

is_ascii_alphabetic(ch) == ch \in AsciiAlphabetic

\* The closures handed to skip_until and read_string, by name.
Predicate(name, ch) ==
    CASE name = "is_whitespace" -> is_whitespace(ch)
      [] name = "not_star" -> ch # "*"
      [] name = "is_ascii_alphabetic" -> is_ascii_alphabetic(ch)
      [] name = "not_ascii_alphabetic" -> ~is_ascii_alphabetic(ch)
      [] name = "is_ascii_digit" -> is_ascii_digit(ch)
      [] OTHER -> ch # ";"

CharReader_new(reader) == [reader |-> reader, buffer |-> <<>>, pos |-> 0]

\* BufRead::read_line: the length of the next line, its newline included.
line_length(reader) ==
    IF \E i \in 1..Len(reader) : reader[i] = "\n"
    THEN CHOOSE i \in 1..Len(reader) : reader[i] = "\n" /\ \A j \in 1..(i - 1) : reader[j] # "\n"
    ELSE Len(reader)

\* The buffer after read_line has returned n characters.
line_read(cr, n) ==
    [reader |-> SubSeq(cr.reader, n + 1, Len(cr.reader)),
     buffer |-> SubSeq(cr.reader, 1, n), pos |-> 0]

\* CharReader::refresh_buffer.
refresh_buffer(cr) == line_read(cr, line_length(cr.reader))

RECURSIVE CharReader_next(_)
\* CharReader::next: [some, ch, cr].
CharReader_next(cr) ==
    IF cr.pos < Len(cr.buffer)
    THEN [some |-> TRUE, ch |-> cr.buffer[cr.pos + 1], cr |-> [cr EXCEPT !.pos = @ + 1]]
    ELSE IF cr.reader = <<>>
    THEN [some |-> FALSE, ch |-> "", cr |-> refresh_buffer(cr)]
    ELSE CharReader_next(refresh_buffer(cr))

RECURSIVE chars_skip_until(_, _, _)
\* The loop of Tokenizer::skip_until on the character r that peek shows.
chars_skipped(cr, r, predicate, fail_on_eof) ==
    IF ~r.some THEN [cr |-> cr, err |-> fail_on_eof]
    ELSE IF ~Predicate(predicate, r.ch) THEN [cr |-> cr, err |-> FALSE]
    ELSE chars_skip_until(r.cr, predicate, fail_on_eof)

\* Tokenizer::skip_until: [cr, err], err for EndOfInput.
chars_skip_until(cr, predicate, fail_on_eof) ==
    chars_skipped(cr, CharReader_next(cr), predicate, fail_on_eof)

Token(kind, ch) == [kind |-> kind, ch |-> ch]

\* What Tokenizer::next returns: the token and the tokenizer after it.
Emitted(kind, ch, cr, is_inside_string) ==
    [token |-> Token(kind, ch), tz |-> [parser |-> cr, is_inside_string |-> is_inside_string]]

RECURSIVE comment_loop(_)
\* The loop at lines 122-135 after the `*` has been consumed: p is the
\* character that peek shows, n the reader in front of it.
comment_star_read(n, p) ==
    IF p.some /\ p.ch = "/" THEN Emitted("Comment", "", p.cr, FALSE) ELSE comment_loop(n)

\* The loop at lines 122-135 after skip_until has returned s.
comment_skipped(s) ==
    IF s.err THEN Emitted("Err", "EndOfInput", s.cr, FALSE)
    ELSE comment_star_read(CharReader_next(s.cr).cr, CharReader_next(CharReader_next(s.cr).cr))

comment_loop(cr) == comment_skipped(chars_skip_until(cr, "not_star", TRUE))

\* Case 4 of Tokenizer::next: a `/` outside a string, p the character that
\* peek shows behind it.
slash_read(cr, p) ==
    IF ~p.some THEN Emitted("Character", "/", cr, FALSE)
    ELSE IF p.ch # "*" THEN Emitted("Character", "/", cr, FALSE)
    ELSE comment_loop(cr)

\* Tokenizer::next on the character r that the character reader returns.
char_read(tz, r) ==
    IF ~r.some THEN Emitted("None", "", r.cr, tz.is_inside_string)
    ELSE IF r.ch = "'" THEN Emitted("Character", "'", r.cr, ~tz.is_inside_string)
    ELSE IF tz.is_inside_string THEN Emitted("Character", r.ch, r.cr, TRUE)
    ELSE IF is_whitespace(r.ch)
    THEN Emitted("Whitespace", "", chars_skip_until(r.cr, "is_whitespace", FALSE).cr, FALSE)
    ELSE IF r.ch = "/" THEN slash_read(r.cr, CharReader_next(r.cr))
    ELSE Emitted("Character", r.ch, r.cr, FALSE)

\* Tokenizer::next.
Tokenizer_next(tz) == char_read(tz, CharReader_next(tz.parser))

Tokenizer_new(parser) == [parser |-> parser, is_inside_string |-> FALSE]

\* Parser::new.
Parser_new(reader) == Tokenizer_new(CharReader_new(reader))

RECURSIVE skip_whitespace_tokens(_)
\* Parser::skip_whitespace_tokens on the token t that peek shows.
whitespace_peeked(tz, t) ==
    IF t.token.kind \in {"Whitespace", "Comment"} THEN skip_whitespace_tokens(t.tz) ELSE tz

\* Parser::skip_whitespace_tokens: the tokenizer in front of the first token
\* that is neither whitespace nor a comment.
skip_whitespace_tokens(tz) == whitespace_peeked(tz, Tokenizer_next(tz))

RECURSIVE skip_until(_, _, _)
skipped(tz, t, predicate, count) ==
    IF t.token.kind = "Character" /\ Predicate(predicate, t.token.ch)
    THEN skip_until(t.tz, predicate, count + 1)
    ELSE [count |-> count, tz |-> tz]

\* Parser::skip_until: [count, tz].
skip_until(tz, predicate, count) == skipped(tz, Tokenizer_next(tz), predicate, count)

RECURSIVE read_string_from(_, _, _, _)
read_string_peeked(tz, t, predicate, ignore_whitespace, result) ==
    CASE t.token.kind = "Character" ->
            IF ~Predicate(predicate, t.token.ch)
            THEN [result |-> result, err |-> "", tz |-> tz]
            ELSE read_string_from(t.tz, predicate, ignore_whitespace,
                                  Append(result, t.token.ch))
      [] t.token.kind \in {"Whitespace", "Comment"} ->
            IF ~ignore_whitespace THEN [result |-> result, err |-> "", tz |-> tz]
            ELSE read_string_from(t.tz, predicate, ignore_whitespace, Append(result, " "))
      [] t.token.kind = "Err" -> [result |-> result, err |-> "FailedSequence", tz |-> tz]
      [] OTHER -> [result |-> result, err |-> "", tz |-> tz]

read_string_from(tz, predicate, ignore_whitespace, result) ==
    read_string_peeked(tz, Tokenizer_next(tz), predicate, ignore_whitespace, result)

\* Parser::read_string: [result, err, tz].
read_string(tz, predicate, ignore_whitespace) ==
    read_string_from(tz, predicate, ignore_whitespace, <<>>)

RECURSIVE read_exact_sequence(_, _)
sequence_read(t, sequence) ==
    CASE t.token.kind = "Character" ->
            IF t.token.ch # Head(sequence) THEN [err |-> "UnexpectedToken", tz |-> t.tz]
            ELSE read_exact_sequence(t.tz, Tail(sequence))
      [] t.token.kind = "Err" -> [err |-> "FailedSequence", tz |-> t.tz]
      [] OTHER -> [err |-> "UnexpectedToken", tz |-> t.tz]

\* Parser::read_exact_sequence: [err, tz].
read_exact_sequence(tz, sequence) ==
    IF sequence = <<>> THEN [err |-> "", tz |-> tz]
    ELSE sequence_read(Tokenizer_next(tz), sequence)

\* str::parse::<u64> of the digits read: the empty string is no number.
digits_read(s) ==
    IF s.err # "" THEN [id |-> 0, err |-> s.err, tz |-> s.tz]
    ELSE IF s.result = <<>> THEN [id |-> 0, err |-> "InvalidNumber", tz |-> s.tz]
    ELSE [id |-> parse_u64(s.result), err |-> "", tz |-> s.tz]

\* Parser::read_u64: [id, err, tz].
read_u64(tz) == digits_read(read_string(skip_whitespace_tokens(tz), "is_ascii_digit", FALSE))

Semicolon == <<";">>
IsoTag == <<"I", "S", "O", "-", "1", "0", "3", "0", "3", "-", "2", "1">>
DataKeyword == <<"D", "A", "T", "A">>
EndsecKeyword == <<"E", "N", "D", "S", "E", "C">>

\* STEPReader::parse_iso_line of the plain reader: [err, tz].
iso_tag_read(r) ==
    IF r.err # "" THEN r ELSE read_exact_sequence(skip_whitespace_tokens(r.tz), Semicolon)

plain_parse_iso_line(tz) == iso_tag_read(read_exact_sequence(skip_whitespace_tokens(tz), IsoTag))

RECURSIVE plain_find_data_section(_)
\* The end of an iteration of find_data_section that did not read DATA.
data_skipped(identifier, s) ==
    IF s.count = 0 /\ identifier = <<>> THEN [err |-> "NoDataSection", tz |-> s.tz]
    ELSE plain_find_data_section(s.tz)

\* find_data_section once read_string has returned s.
data_identifier_read(s) ==
    IF s.err # "" THEN [err |-> s.err, tz |-> s.tz]
    ELSE IF s.result = DataKeyword
    THEN read_exact_sequence(skip_whitespace_tokens(s.tz), Semicolon)
    ELSE data_skipped(s.result, skip_until(s.tz, "not_ascii_alphabetic", 0))

\* STEPReader::find_data_section of the plain reader: [err, tz].
plain_find_data_section(tz) ==
    data_identifier_read(read_string(skip_whitespace_tokens(tz), "is_ascii_alphabetic", FALSE))

\* What read_next_entry returns: Ok(Some(entry)), Ok(None) or Err(err),
\* and the reader after the call.
EntryRead(kind, entry, err, tz, reached_end) ==
    [kind |-> kind, entry |-> entry, err |-> err,
     reader |-> [parser |-> tz, reached_end |-> reached_end]]

NoEntry == StepEntry(0, <<>>)

Failed(err, tz, reached_end) == EntryRead("err", NoEntry, err, tz, reached_end)

\* read_next_entry of the plain reader, line 94: the closing `;`.
entry_end_read(id, definition, r) ==
    IF r.err # "" THEN Failed(r.err, r.tz, FALSE)
    ELSE EntryRead("entry", StepEntry(id, definition), "", r.tz, FALSE)

\* Line 93: the definition is read up to the first `;` character.
entry_definition_read(id, s) ==
    IF s.err # "" THEN Failed(s.err, s.tz, FALSE)
    ELSE entry_end_read(id, s.result, read_exact_sequence(s.tz, Semicolon))

\* Lines 90-92.
entry_eq_read(id, r) ==
    IF r.err # "" THEN Failed(r.err, r.tz, FALSE)
    ELSE entry_definition_read(id, read_string(skip_whitespace_tokens(r.tz),
                                               "not_semicolon", TRUE))

\* Line 89.
entry_id_read(n) ==
    IF n.err # "" THEN Failed(n.err, n.tz, FALSE)
    ELSE entry_eq_read(n.id, read_exact_sequence(skip_whitespace_tokens(n.tz), <<"=">>))

\* Line 88.
entry_hash_read(r) ==
    IF r.err # "" THEN Failed(r.err, r.tz, FALSE) ELSE entry_id_read(read_u64(r.tz))

\* Lines 77-82: reached_end is set before the `;` behind ENDSEC is read.
endsec_read(r) ==
    IF r.err # "" THEN Failed(r.err, r.tz, TRUE)
    ELSE EntryRead("none", NoEntry, "", r.tz, TRUE)

\* Lines 72-85.
entry_identifier_read(s) ==
    IF s.err # "" THEN Failed(s.err, s.tz, FALSE)
    ELSE IF s.result = EndsecKeyword
    THEN endsec_read(read_exact_sequence(skip_whitespace_tokens(s.tz), Semicolon))
    ELSE IF s.result # <<>> THEN Failed("UnexpectedIdentifier", s.tz, FALSE)
    ELSE entry_hash_read(read_exact_sequence(s.tz, <<"#">>))

\* STEPReader::read_next_entry of the plain reader.
plain_read_next_entry(reader) ==
    IF reader.reached_end THEN EntryRead("none", NoEntry, "", reader.parser, TRUE)
    ELSE entry_identifier_read(read_string(skip_whitespace_tokens(reader.parser),
                                           "is_ascii_alphabetic", FALSE))

\* STEPReader::new of the plain reader once parse_iso_line has returned r.
plain_iso_line_parsed(r) == IF r.err # "" THEN r ELSE plain_find_data_section(r.tz)

plain_reader_built(r) ==
    [err |-> r.err, reader |-> [parser |-> r.tz, reached_end |-> FALSE]]

\* STEPReader::new of the plain reader: [err, reader].
plain_new(reader) ==
    plain_reader_built(plain_iso_line_parsed(plain_parse_iso_line(Parser_new(reader))))

RECURSIVE plain_collect(_, _)
\* The loop of StepData::from_str on the item r of the reader.
plain_collected(r, entries) ==
    CASE r.kind = "entry" -> plain_collect(r.reader, Append(entries, r.entry))
      [] r.kind = "none" -> [err |-> "", entries |-> entries]
      [] OTHER -> [err |-> r.err, entries |-> <<>>]

plain_collect(reader, entries) == plain_collected(plain_read_next_entry(reader), entries)

from_str_built(r) ==
    IF r.err # "" THEN [err |-> r.err, entries |-> <<>>] ELSE plain_collect(r.reader, <<>>)

\* StepData::from_str: [err, entries].
from_str(s) == from_str_built(plain_new(s))

RECURSIVE write_entries(_, _, _)
\* The loop of write_step once write_entry has returned r.
write_entries_after(r, entries, fail) ==
    IF r.err \/ r.panic THEN r ELSE write_entries(r.w, entries, fail - 1)

\* The loop of write_step: [w, err, panic].
write_entries(w, entries, fail) ==
    IF entries = <<>> THEN [w |-> w, err |-> FALSE, panic |-> FALSE]
    ELSE write_entries_after(write_entry(w, Head(entries), IF fail = 1 THEN 1 ELSE 0),
                             Tail(entries), fail)

\* write_step from the loop on: the writer is finalized, by finalize or,
\* after an error, when it is dropped.
step_entries_written(r, fail) ==
    IF r.err THEN [sink |-> drop(r.w, 0).writer, err |-> TRUE]
    ELSE [sink |-> finalize(r.w, fail).w.writer, err |-> finalize(r.w, fail).err]

step_writer_built(r, entries, fail) ==
    IF r.err THEN [sink |-> r.w.writer, err |-> TRUE]
    ELSE step_entries_written(write_entries(r.w, entries, fail - 8),
                              IF fail > 8 + Len(entries) THEN fail - 8 - Len(entries) ELSE 0)

\* write_step: [sink, err].  The fail-th sink operation of the whole call is
\* rejected (0: none).
write_step(sink, entries, filename, fail) ==
    step_writer_built(StepWriter_new(sink, ImplementationLevel, filename, ProtocolText,
                                     IF fail \in 1..8 THEN fail ELSE 0, 0),
                      entries, fail)

RECURSIVE SinkText(_)
\* The characters the sink has received.
SinkText(sink) == IF sink = <<>> THEN <<>> ELSE ChunkText(Head(sink)) \o SinkText(Tail(sink))

(***************************************************************************)
(* Specification of the plain reader and of the round trip: a STEP text is *)
(* read entry by entry; once the reader has reached the end of the data    *)
(* section, the entries are written with write_step and the written text   *)
(* is parsed again.  The text holds two entries, and the definition of the *)
(* first one is made of up to MaxPieces pieces.                            *)
(***************************************************************************)
MaxPieces == 3

CommentPiece == <<"/", "*", "c", "*", "/">>

\* Quoted strings that hold a `;`, a `#`, a `/*` and a `*/`.
StringPieces ==
    {<<"'", ";", "'">>, <<"'", "#", "1", "'">>, <<"'", "/", "*", "'">>,
     <<"'", "*", "/", "'">>}

Pieces ==
    {<<"A">>, <<"1">>, <<" ">>, <<"'">>, <<";">>, <<"#">>, <<"/">>, <<"*">>, CommentPiece}
    \cup StringPieces

PieceLists == UNION {[1..n -> Pieces] : n \in 0..MaxPieces}

RECURSIVE Concat(_)
Concat(lists) == IF lists = <<>> THEN <<>> ELSE Head(lists) \o Concat(Tail(lists))

\* A STEP text whose first entry has the definition `body`.
FileText(body) ==
    IsoTag \o <<";", "\n">> \o DataKeyword \o <<";", "\n", "#", "1", "=">> \o body
    \o <<";", "\n", "#", "2", "=", "B", ";", "\n">> \o EndsecKeyword \o <<";", "\n">>

FileName == <<"f">>

PlainInit ==
    /\ EntryIdle
    /\ WriterIdle
    /\ MergeIdle
    /\ ReaderIdle
    /\ HelpersIdle
    /\ pl_pieces \in PieceLists
    /\ pl_input = FileText(Concat(pl_pieces))
    /\ pl = <<>>
    /\ pl_pc = "start"
    /\ pl_items = <<>>
    /\ pl_written = <<>>
    /\ pl_reparsed = <<>>

PlainNewDone(r) ==
    /\ pl' = r.reader
    /\ pl_pc' = IF r.err # "" THEN "failed" ELSE "body"
    /\ pl_items' = IF r.err # "" THEN <<[kind |-> "err", entry |-> NoEntry, err |-> r.err]>>
                   ELSE <<>>

PlainNew ==
    /\ pl_pc = "start"
    /\ PlainNewDone(plain_new(pl_input))
    /\ UNCHANGED <<pl_pieces, pl_input, pl_written, pl_reparsed>>
    /\ UNCHANGED NotPlain

PlainNextDone(r) ==
    /\ pl' = r.reader
    /\ pl_pc' = CASE r.kind = "entry" -> "body" [] r.kind = "none" -> "done" [] OTHER -> "failed"
    /\ pl_items' = IF r.kind = "none" THEN pl_items
                   ELSE Append(pl_items, [kind |-> r.kind, entry |-> r.entry, err |-> r.err])

PlainNext ==
    /\ pl_pc = "body"
    /\ PlainNextDone(plain_read_next_entry(pl))
    /\ UNCHANGED <<pl_pieces, pl_input, pl_written, pl_reparsed>>
    /\ UNCHANGED NotPlain

ItemEntries(items) == [i \in 1..Len(items) |-> items[i].entry]

WriteStepDone(r) ==
    /\ pl_written' = SinkText(r.sink)
    /\ pl_pc' = IF r.err THEN "write_failed" ELSE "written"

WriteStep ==
    /\ pl_pc = "done"
    /\ \E fail \in {0, 9} : WriteStepDone(write_step(<<>>, ItemEntries(pl_items), FileName, fail))
    /\ UNCHANGED <<pl_pieces, pl_input, pl, pl_items, pl_reparsed>>
    /\ UNCHANGED NotPlain

ParseWritten ==
    /\ pl_pc = "written"
    /\ pl_reparsed' = from_str(pl_written)
    /\ pl_pc' = "reparsed"
    /\ UNCHANGED <<pl_pieces, pl_input, pl, pl_items, pl_written>>
    /\ UNCHANGED NotPlain

PlainReaderNext == PlainNew \/ PlainNext \/ WriteStep \/ ParseWritten

SpecPlain == PlainInit /\ [][PlainReaderNext]_vars

(***************************************************************************)
(* Claims about the plain reader and the round trip.                       *)
(***************************************************************************)
\* The first definition is made of quoted strings and plain text only.
OnlyStrings == \A i \in 1..Len(pl_pieces) : pl_pieces[i] \in StringPieces \cup {<<"A">>, <<"1">>}

HasString == \E i \in 1..Len(pl_pieces) : pl_pieces[i] \in StringPieces

\* C8: a `;`, a `#`, a `/*` and a `*/` inside a single-quoted string are
\* inert: when the body of the first entry is made of quoted strings and
\* plain text, the reader returns both entries of the text and the first
\* definition is the body, character for character.
C8_StringsInert ==
    (pl_pc \notin {"idle", "start", "body"} /\ OnlyStrings /\ HasString)
        => /\ pl_pc # "failed"
           /\ ItemEntries(pl_items) = <<StepEntry(1, Concat(pl_pieces)), StepEntry(2, <<"B">>)>>

\* C9: the entries parsed from the written text are the entries that were
\* written, by id and by definition.
C9_RoundTrip ==
    pl_pc = "reparsed"
        => pl_reparsed.err = "" /\ pl_reparsed.entries = ItemEntries(pl_items)

(***************************************************************************)
(* The logos reader.  Its input is a sequence of bytes: an ASCII character *)
(* is one byte, and the text may hold the two-byte character whose bytes   *)
(* are LeadByte and ContinuationByte.                                      *)
(***************************************************************************)
LeadByte == "C3"
ContinuationByte == "A9"

BUFFER_SIZE_START == 1024
BUFFER_GROWTH_FACTOR == 2

\* The positions of bytes at which std::str::from_utf8 fails when bytes is
\* followed by zero bytes, as the free space of the buffer is.
InvalidAt(bytes) ==
    {i \in 1..Len(bytes) :
        \/ bytes[i] = LeadByte /\ (i = Len(bytes) \/ bytes[i + 1] # ContinuationByte)
        \/ bytes[i] = ContinuationByte /\ (i = 1 \/ bytes[i - 1] # LeadByte)}

\* Utf8Error::valid_up_to.
valid_up_to(bytes) ==
    CHOOSE n \in 0..Len(bytes) : (n + 1) \in InvalidAt(bytes) /\ \A i \in 1..n : i \notin InvalidAt(bytes)

Smallest(S) == CHOOSE x \in S : \A y \in S : x <= y

\* The reader under the buffer: the bytes not yet read, the number of
\* bytes read, and the offsets at which a read of the reader stops.
ByteReader(bytes, cuts) == [bytes |-> bytes, offset |-> 0, cuts |-> cuts]

\* Read::read into a destination of `space` bytes: the number of bytes
\* that the reader returns.
read_length(reader, space) ==
    Smallest({space, Len(reader.bytes)}
        \cup {c - reader.offset : c \in {d \in reader.cuts : d > reader.offset}})

\* circular::Buffer::with_capacity and BufferedReader::new.  The buffer
\* holds data, the bytes between its position and its end.
BufferedReader_new(reader) ==
    [reader |-> reader,
     buffer |-> [data |-> <<>>, position |-> 0, end |-> 0, capacity |-> BUFFER_SIZE_START],
     num_valid_utf8_bytes |-> 0]

\* BufferedReader::fill_buffer once the reader has returned `read` bytes:
\* [err, br].
buffer_filled(br, read) ==
    IF read = 0 THEN [err |-> "EndOfInput", br |-> br]
    ELSE [err |-> "",
          br |-> [reader |-> [br.reader EXCEPT !.bytes = SubSeq(@, read + 1, Len(@)),
                                               !.offset = @ + read],
                  buffer |-> [br.buffer EXCEPT !.data = @ \o SubSeq(br.reader.bytes, 1, read),
                                               !.end = @ + read],
                  num_valid_utf8_bytes |->
                      br.num_valid_utf8_bytes
                      + (IF InvalidAt(SubSeq(br.reader.bytes, 1, read)) = {} THEN read
                         ELSE valid_up_to(SubSeq(br.reader.bytes, 1, read)))]]

\* BufferedReader::fill_buffer.
fill_buffer(br) == buffer_filled(br, read_length(br.reader, br.buffer.capacity - br.buffer.end))

\* A grow that enlarges the buffer of the starting size without reading
\* from the reader.
grow_unread(br) ==
    IF br.buffer.capacity = BUFFER_SIZE_START
    THEN [err |-> "", br |-> [br EXCEPT !.buffer.capacity = BUFFER_GROWTH_FACTOR * @]]
    ELSE fill_buffer([br EXCEPT !.buffer.capacity = BUFFER_GROWTH_FACTOR * @])

\* BufferedReader::grow.
grow(br) == fill_buffer([br EXCEPT !.buffer.capacity = BUFFER_GROWTH_FACTOR * @])

\* BufferedReader::consumed; n never exceeds the length of the text view,
\* and the buffer does not shift its data while its position is at most
\* half of its capacity.
consumed(br, n) ==
    [br EXCEPT !.num_valid_utf8_bytes = @ - n,
               !.buffer.position = @ + n,
               !.buffer.data = SubSeq(@, n + 1, Len(@))]

\* BufferedReader::check_if_filled_enough.
check_if_filled_enough(br) ==
    IF Len(br.buffer.data) * 4 < br.buffer.capacity THEN fill_buffer(br)
    ELSE [err |-> "", br |-> br]

\* BufferedReader::as_str.
as_str(br) == SubSeq(br.buffer.data, 1, br.num_valid_utf8_bytes)

(***************************************************************************)
(* The token stream over a text view.  A position is the number of bytes   *)
(* in front of the next token.                                             *)
(***************************************************************************)
LogosWhitespace == {" ", "\t", "\r", "\n", "\f"}
DefinitionExcluded == LogosWhitespace \cup {";", "=", "'", "/"}
Digits == {DigitChars[d] : d \in 1..10}
NonZeroDigits == Digits \ {"0"}

StartTagText == IsoTag
EndTagText == <<"E", "N", "D", "-">> \o IsoTag
HeaderText == <<"H", "E", "A", "D", "E", "R">>

\* The first index from `from` on at which the view holds a character
\* outside class, Len(view) + 1 if there is none.
skip_while(view, from, class) ==
    CHOOSE i \in from..(Len(view) + 1) :
        /\ i = Len(view) + 1 \/ view[i] \notin class
        /\ \A j \in from..(i - 1) : view[j] \in class

\* The first index from `from` on at which the view holds a character of
\* class, Len(view) + 1 if there is none.
skip_to(view, from, class) ==
    CHOOSE i \in from..(Len(view) + 1) :
        /\ i = Len(view) + 1 \/ view[i] \in class
        /\ \A j \in from..(i - 1) : view[j] \notin class

\* A token, and the offset at which it ends.
LToken(kind, text, id, end) == [kind |-> kind, text |-> text, id |-> id, end |-> end]

RECURSIVE comment_end(_, _)
\* The index of the `/` that ends the comment whose body starts at index
\* i, 0 if the view holds none: the body is made of characters other than
\* `*` and of pairs of a `*` and a character other than `/`.
comment_end(view, i) ==
    IF i > Len(view) THEN 0
    ELSE IF view[i] # "*" THEN comment_end(view, i + 1)
    ELSE IF i + 1 > Len(view) THEN 0
    ELSE IF view[i + 1] = "/" THEN i + 1
    ELSE comment_end(view, i + 2)

\* A `/` at offset pos.
comment_token(view, pos, e) ==
    IF e = 0 THEN LToken("Err", <<>>, 0, pos) ELSE LToken("Comments", <<>>, 0, e)

slash_token(view, pos) ==
    IF pos + 2 > Len(view) \/ view[pos + 2] # "*" THEN LToken("Err", <<>>, 0, pos)
    ELSE comment_token(view, pos, comment_end(view, pos + 3))

\* A `'` at offset pos, e the index of the next `'`.
string_token(view, pos, e) ==
    IF e > Len(view) THEN LToken("Err", <<>>, 0, pos)
    ELSE LToken("String", SubSeq(view, pos + 2, e - 1), 0, e)

\* The keyword or the definition that the text is.
word_token(text, e) ==
    CASE text = StartTagText -> LToken("StartTag", text, 0, e)
      [] text = EndTagText -> LToken("EndTag", text, 0, e)
      [] text = HeaderText -> LToken("Header", text, 0, e)
      [] text = DataKeyword -> LToken("Data", text, 0, e)
      [] text = EndsecKeyword -> LToken("Endsec", text, 0, e)
      [] OTHER -> LToken("Definition", text, 0, e)

\* A `#` at offset pos: d is the index of the first digit of the reference,
\* r the index behind its last digit and e the index behind the longest
\* definition.  The longer token is taken, the reference if both are equally
\* long.
hash_token(view, pos, d, r, e) ==
    IF d <= Len(view) /\ view[d] \in NonZeroDigits /\ r >= e
    THEN LToken("Reference", <<>>, DigitsValue(SubSeq(view, d, r - 1), 0), r - 1)
    ELSE word_token(SubSeq(view, pos + 1, e - 1), e - 1)

hash_digits(view, pos, d) ==
    hash_token(view, pos, d, skip_while(view, d, Digits),
               skip_to(view, pos + 1, DefinitionExcluded))

\* The token at offset pos of the view.
token_at(view, pos) ==
    CASE view[pos + 1] \in LogosWhitespace ->
            LToken("Whitespace", <<>>, 0, skip_while(view, pos + 1, LogosWhitespace) - 1)
      [] view[pos + 1] = "=" -> LToken("Eq", <<>>, 0, pos + 1)
      [] view[pos + 1] = ";" -> LToken("Sem", <<>>, 0, pos + 1)
      [] view[pos + 1] = "'" -> string_token(view, pos, skip_to(view, pos + 2, {"'"}))
      [] view[pos + 1] = "/" -> slash_token(view, pos)
      [] view[pos + 1] = "#" -> hash_digits(view, pos, skip_while(view, pos + 2, LogosWhitespace))
      [] OTHER -> word_token(SubSeq(view, pos + 1, skip_to(view, pos + 1, DefinitionExcluded) - 1),
                             skip_to(view, pos + 1, DefinitionExcluded) - 1)

\* The view ends in the middle of a character.
ends_mid_character(view) == view # <<>> /\ view[Len(view)] = LeadByte

\* A text view: the bytes, and whether the token stream takes the first
\* byte of a character that the view does not hold in full as text.
TextView(bytes, lenient) ==
    IF ends_mid_character(bytes) /\ ~lenient
    THEN [text |-> SubSeq(bytes, 1, Len(bytes) - 1), broken |-> TRUE]
    ELSE [text |-> bytes, broken |-> FALSE]

\* TokenIterator::next at offset pos: the kind "None" at the end of the
\* view.
logos_next(v, pos) ==
    IF pos >= Len(v.text)
    THEN (IF v.broken THEN LToken("Err", <<>>, 0, pos) ELSE LToken("None", <<>>, 0, pos))
    ELSE token_at(v.text, pos)

(***************************************************************************)
(* The closures that parse_element runs on the token stream of a text      *)
(* view.  An attempt is [ok, err, entry, reached_end, consumed]: consumed  *)
(* is the offset at which the last token taken from the stream ends.       *)
(***************************************************************************)
Attempt(entry, reached_end, consumed_bytes) ==
    [ok |-> TRUE, err |-> "", entry |-> entry, reached_end |-> reached_end,
     consumed |-> consumed_bytes]

\* The error of an attempt that took the token t where it expected another
\* one: none is the error at the end of the view.
AttemptFailed(t, none) ==
    [ok |-> FALSE,
     err |-> CASE t.kind = "Err" -> "ParsingToken" [] t.kind = "None" -> none
               [] OTHER -> "UnexpectedToken",
     entry |-> NoEntry, reached_end |-> FALSE, consumed |-> 0]

RECURSIVE logos_skip_whitespace_tokens(_, _)
\* skip_whitespace_tokens on the token t that peek shows at offset pos.
whitespace_token_peeked(v, pos, t) ==
    IF t.kind \in {"Whitespace", "Comments"} THEN logos_skip_whitespace_tokens(v, t.end)
    ELSE pos

\* PTokenIterator::skip_whitespace_tokens: the offset behind the skipped
\* tokens.
logos_skip_whitespace_tokens(v, pos) == whitespace_token_peeked(v, pos, logos_next(v, pos))

\* The token behind the whitespace tokens at offset pos.
next_after_whitespace(v, pos) == logos_next(v, logos_skip_whitespace_tokens(v, pos))

\* The `;` that ends the ISO line and the DATA line.
sem_expected(t) ==
    IF t.kind = "Sem" THEN Attempt(NoEntry, FALSE, t.end) ELSE AttemptFailed(t, "EndOfInput")

start_tag_expected(v, t) ==
    IF t.kind = "StartTag" THEN sem_expected(next_after_whitespace(v, t.end))
    ELSE AttemptFailed(t, "EndOfInput")

\* The closure of parse_iso_line.
iso_line_closure(v) == start_tag_expected(v, next_after_whitespace(v, 0))

RECURSIVE data_section_loop(_, _)
\* The loop of the closure of find_data_section on the token t.
data_token_read(v, t) ==
    CASE t.kind = "Data" -> sem_expected(next_after_whitespace(v, t.end))
      [] t.kind \in {"Err", "None"} -> AttemptFailed(t, "NoDataSection")
      [] OTHER -> data_section_loop(v, t.end)

data_section_loop(v, pos) == data_token_read(v, logos_next(v, pos))

\* The closure of find_data_section.
data_section_closure(v) == data_section_loop(v, 0)

RECURSIVE entry_body(_, _, _)
\* The loop that collects the definition, on the token t.
body_token_read(v, id, definition, t) ==
    CASE t.kind = "Sem" -> Attempt(StepEntry(id, definition), FALSE, t.end)
      [] t.kind = "Whitespace" -> entry_body(v, [id |-> id, pos |-> t.end], definition \o <<" ">>)
      [] t.kind = "Comments" -> entry_body(v, [id |-> id, pos |-> t.end], definition)
      [] t.kind = "Definition" -> entry_body(v, [id |-> id, pos |-> t.end], definition \o t.text)
      [] t.kind = "Eq" -> entry_body(v, [id |-> id, pos |-> t.end], definition \o <<"=">>)
      [] t.kind = "String" ->
            entry_body(v, [id |-> id, pos |-> t.end], definition \o <<"'">> \o t.text \o <<"'">>)
      [] t.kind = "Reference" ->
            entry_body(v, [id |-> id, pos |-> t.end], definition \o <<"#">> \o to_string(t.id))
      [] OTHER -> AttemptFailed(t, "EndOfInput")

entry_body(v, at, definition) == body_token_read(v, at.id, definition, logos_next(v, at.pos))

eq_expected(v, id, t) ==
    IF t.kind = "Eq" THEN entry_body(v, [id |-> id, pos |-> t.end], <<>>)
    ELSE AttemptFailed(t, "EndOfInput")

reference_expected(v, t) ==
    CASE t.kind = "Reference" -> eq_expected(v, t.id, next_after_whitespace(v, t.end))
      [] t.kind = "Endsec" -> Attempt(NoEntry, TRUE, t.end)
      [] OTHER -> AttemptFailed(t, "EndOfInput")

\* The closure of read_next_entry.
entry_closure(v) == reference_expected(v, next_after_whitespace(v, 0))

\* The closures, by name.
Closure(p, v) ==
    CASE p = "parse_iso_line" -> iso_line_closure(v)
      [] p = "find_data_section" -> data_section_closure(v)
      [] OTHER -> entry_closure(v)

(***************************************************************************)
(* The logos reader.                                                       *)
(***************************************************************************)
RECURSIVE parse_loop(_, _, _)
\* The loop of parse_element once grow has returned g.
parse_grown(g, p, lenient) ==
    IF g.err # "" THEN [err |-> g.err, ret |-> AttemptFailed(LToken("None", <<>>, 0, 0), g.err), br |-> g.br]
    ELSE parse_loop(g.br, p, lenient)

\* The loop of parse_element once the closure has returned r.
parse_tried(br, p, lenient, r) ==
    IF r.ok THEN [err |-> "", ret |-> r, br |-> consumed(br, r.consumed)]
    ELSE parse_grown(grow(br), p, lenient)

parse_loop(br, p, lenient) == parse_tried(br, p, lenient, Closure(p, TextView(as_str(br), lenient)))

\* STEPReader::parse_element: [err, ret, br].  The end of the input that
\* check_if_filled_enough reports is ignored.
parse_element(br, p, lenient) == parse_loop(check_if_filled_enough(br).br, p, lenient)

LogosReader(br, reached_end) == [reader |-> br, reached_end |-> reached_end]

\* STEPReader::new of the logos reader: [err, reader].
iso_line_parsed(r, lenient) ==
    IF r.err # "" THEN r ELSE parse_element(r.br, "find_data_section", lenient)

logos_built(r) == [err |-> r.err, reader |-> LogosReader(r.br, FALSE)]

logos_new(reader, lenient) ==
    logos_built(iso_line_parsed(parse_element(BufferedReader_new(reader), "parse_iso_line",
                                              lenient), lenient))

\* STEPReader::read_next_entry once parse_element has returned r: the
\* item that the iterator returns, and the reader.
entry_parsed(rd, r) ==
    IF r.err # "" THEN [kind |-> "err", entry |-> NoEntry, err |-> r.err, reader |-> LogosReader(r.br, rd.reached_end)]
    ELSE IF r.ret.reached_end
    THEN [kind |-> "none", entry |-> NoEntry, err |-> "", reader |-> LogosReader(r.br, TRUE)]
    ELSE [kind |-> "entry", entry |-> r.ret.entry, err |-> "", reader |-> LogosReader(r.br, FALSE)]

\* A read_next_entry that does not look at reached_end.
logos_read_next_entry_unguarded(rd, lenient) ==
    entry_parsed(rd, parse_element(rd.reader, "read_next_entry", lenient))

\* STEPReader::read_next_entry and Iterator::next of the logos reader.
logos_read_next_entry(rd, lenient) ==
    IF rd.reached_end THEN [kind |-> "none", entry |-> NoEntry, err |-> "", reader |-> rd]
    ELSE entry_parsed(rd, parse_element(rd.reader, "read_next_entry", lenient))

RECURSIVE logos_collect(_, _, _)
\* The items that the iterator returns from rd on, up to the first error
\* or the end of the data section.
logos_collected(r, lenient, items) ==
    CASE r.kind = "entry" ->
            logos_collect(r.reader, lenient, Append(items, [kind |-> "entry", entry |-> r.entry, err |-> ""]))
      [] r.kind = "none" -> items
      [] OTHER -> Append(items, [kind |-> "err", entry |-> NoEntry, err |-> r.err])

logos_collect(rd, lenient, items) == logos_collected(logos_read_next_entry(rd, lenient), lenient, items)

logos_items_built(r, lenient) ==
    IF r.err # "" THEN <<[kind |-> "err", entry |-> NoEntry, err |-> r.err]>>
    ELSE logos_collect(r.reader, lenient, <<>>)

\* The items that a logos reader over the bytes returns when the reads of
\* the underlying reader stop at the offsets cuts.
logos_items(bytes, cuts, lenient) == logos_items_built(logos_new(ByteReader(bytes, cuts), lenient), lenient)

(***************************************************************************)
(* Specification of the logos reader: a text of two entries is read entry  *)
(* by entry from a reader whose reads stop at up to MaxCuts offsets.       *)
(***************************************************************************)
MaxCuts == 2

\* The definitions of the first entry: plain text, text with a two-byte
\* character, a string with a two-byte character, text with a reference.
RefillBodies ==
    {<<"A">>, <<"A", LeadByte, ContinuationByte>>, <<"'", LeadByte, ContinuationByte, "'">>,
     <<"A", " ", "#", "2">>}

\* Definitions with one token of every kind that a body may hold: a run
\* of whitespace, a comment, an `=` and a string, a `#` that starts no
\* reference.
TokenBodies ==
    {<<" ", "A", " ", "\n", "B">>, <<"A", "/", "*", "c", "*", "/", "B">>,
     <<"=", "'", "x", " ", "'", "#", "2">>, <<"#", "A">>}

ReaderBodies == RefillBodies \cup TokenBodies

\* Texts that begin with the ISO line and hold no DATA section: nothing
\* but a blank behind the ISO line, a header section only, entries without
\* the DATA keyword in front of them.
NoDataTexts ==
    {IsoTag \o <<" ", ";", " ">>,
     IsoTag \o <<";", "\n">> \o HeaderText \o <<";", "\n">> \o EndsecKeyword \o <<";", "\n">>,
     IsoTag \o <<";", "\n", "#", "1", "=", "A", ";", "\n">> \o EndsecKeyword \o <<";", "\n">>}

\* `ISO-10303-21; DATA; ENDSEC;`
EmptyDataText ==
    IsoTag \o <<";", " ">> \o DataKeyword \o <<";", " ">> \o EndsecKeyword \o <<";">>

\* A text with an entry behind the ENDSEC of its data section.
EntryBehindEndsecText ==
    IsoTag \o <<";", "\n">> \o DataKeyword \o <<";", "\n">> \o EndsecKeyword
        \o <<";", "\n", "#", "2", "=", "B", ";", "\n">>

EndsecTexts == {EmptyDataText, EntryBehindEndsecText}

ReaderTexts == {FileText(body) : body \in ReaderBodies} \cup NoDataTexts \cup EndsecTexts

RECURSIVE CutSets(_, _)
\* The sets of at most k offsets inside a text of n bytes.
CutSets(n, k) ==
    IF k = 0 THEN {{}}
    ELSE {c \cup d : c \in CutSets(n, k - 1), d \in {{}} \cup {{x} : x \in 1..(n - 1)}}

ReaderInit ==
    /\ EntryIdle
    /\ WriterIdle
    /\ MergeIdle
    /\ PlainIdle
    /\ HelpersIdle
    /\ rd_input \in ReaderTexts
    /\ rd_cuts \in CutSets(Len(rd_input), MaxCuts)
    /\ rd_reader = <<>>
    /\ rd_pc = "start"
    /\ rd_items = <<>>

ReaderNewDone(r) ==
    /\ rd_reader' = r.reader
    /\ rd_pc' = IF r.err # "" THEN "failed" ELSE "body"
    /\ rd_items' = IF r.err # "" THEN <<[kind |-> "err", entry |-> NoEntry, err |-> r.err]>>
                   ELSE <<>>

ReaderNew ==
    /\ rd_pc = "start"
    /\ \E lenient \in BOOLEAN : ReaderNewDone(logos_new(ByteReader(rd_input, rd_cuts), lenient))
    /\ UNCHANGED <<rd_input, rd_cuts>>
    /\ UNCHANGED NotReader

ReaderNextDone(r) ==
    /\ rd_reader' = r.reader
    /\ rd_pc' = CASE r.kind = "entry" -> "body" [] r.kind = "none" -> "done" [] OTHER -> "failed"
    /\ rd_items' = IF r.kind = "none" THEN rd_items
                   ELSE Append(rd_items, [kind |-> r.kind, entry |-> r.entry, err |-> r.err])

ReaderNext ==
    /\ rd_pc \in {"body", "done"}
    /\ \E lenient \in BOOLEAN : ReaderNextDone(logos_read_next_entry(rd_reader, lenient))
    /\ UNCHANGED <<rd_input, rd_cuts>>
    /\ UNCHANGED NotReader

LogosReaderNext == ReaderNew \/ ReaderNext

SpecReader == ReaderInit /\ [][LogosReaderNext]_vars

(***************************************************************************)
(* Claims about the logos reader.                                          *)
(***************************************************************************)
\* C7: the items that the reader returns do not depend on where the reads
\* of the underlying reader stop: they are the items of a reader that gets
\* the whole text with its first read.
C7_RefillIndependent ==
    rd_pc \in {"done", "failed"} => rd_items = logos_items(rd_input, {}, TRUE)

\* C15: STEPReader::new on a text that begins with `ISO-10303-21;` and
\* holds no DATA section fails with NoDataSection.
C15_NoDataSection ==
    (rd_input \in NoDataTexts /\ rd_pc # "start") =>
        /\ rd_pc = "failed"
        /\ rd_items = <<[kind |-> "err", entry |-> NoEntry, err |-> "NoDataSection"]>>

\* STEPReader::new does fail on these texts, with whatever error.
C15_NoDataFails == (rd_input \in NoDataTexts /\ rd_pc # "start") => rd_pc = "failed"

\* The text holds ASCII characters only.
AsciiOnly == \A i \in 1..Len(rd_input) : rd_input[i] \notin {LeadByte, ContinuationByte}

\* The entries that the reader has returned so far.
EntriesRead == {rd_items[i].entry : i \in {j \in 1..Len(rd_items) : rd_items[j].kind = "entry"}}

Identity == [a |-> 1, b |-> 0, app |-> -1, to |-> 0]

\* C29: get_references and update_references return without panic for
\* every entry that the entry reader produces, a `#` outside a string that
\* is followed by no digit included.
C29_NoPanicOnReaderOutput ==
    \A entry \in EntriesRead :
        /\ ~get_references(entry).panic
        /\ ~update_references(entry, Identity).panic

\* The same for the entries in whose definition every `#` outside a string
\* starts a reference.
C29_NoPanicOnReferences ==
    \A entry \in EntriesRead :
        EveryHashIsReference(entry.definition, 1, FALSE) =>
            /\ ~get_references(entry).panic
            /\ ~update_references(entry, Identity).panic

\* The text has an entry #1 whose body is one of the bodies of the model.
HasBody == \E body \in ReaderBodies : rd_input = FileText(body)

BodyOf == CHOOSE body \in ReaderBodies : rd_input = FileText(body)

RECURSIVE TokensAsText(_, _, _)
\* The definition that the tokens of a body stand for: a Whitespace token
\* is a blank, a Comments token the text `comment`, a String token its
\* text in quotes, Reference(n) `#n`, Eq `=`, a Definition token its text.
TokensAsText(v, pos, comment) ==
    LET t == logos_next(v, pos)
    IN  CASE t.kind = "Whitespace" -> <<" ">> \o TokensAsText(v, t.end, comment)
          [] t.kind = "Comments" -> comment \o TokensAsText(v, t.end, comment)
          [] t.kind = "String" -> <<"'">> \o t.text \o <<"'">> \o TokensAsText(v, t.end, comment)
          [] t.kind = "Reference" -> <<"#">> \o to_string(t.id) \o TokensAsText(v, t.end, comment)
          [] t.kind = "Eq" -> <<"=">> \o TokensAsText(v, t.end, comment)
          [] t.kind = "Definition" -> t.text \o TokensAsText(v, t.end, comment)
          [] OTHER -> <<>>

\* The reader has returned the first entry of a text, and the text holds
\* ASCII characters only.
FirstEntryRead ==
    /\ HasBody
    /\ AsciiOnly
    /\ rd_items # <<>>
    /\ rd_items[1].kind = "entry"

\* C21: in the body of an entry every Whitespace token and every Comments
\* token contributes one blank to the definition, a String token is put
\* in quotes again, Reference(n) becomes `#n`, Eq becomes `=` and the text
\* of a Definition token is appended as it is.
C21_BodyTokens ==
    FirstEntryRead =>
        rd_items[1].entry = StepEntry(1, TokensAsText([text |-> BodyOf, broken |-> FALSE], 0, <<" ">>))

\* The same with a Comments token that contributes nothing.
C21_BodyTokensCommentsDropped ==
    FirstEntryRead =>
        rd_items[1].entry = StepEntry(1, TokensAsText([text |-> BodyOf, broken |-> FALSE], 0, <<>>))

\* The reader has come to the end of the data section: it is in the state
\* Done, and what it has returned are the entries in front of the ENDSEC
\* and no error.
EndOfSequence ==
    /\ rd_reader.reached_end
    /\ \A i \in 1..Len(rd_items) : rd_items[i].kind = "entry"

\* Of a text whose data section begins with ENDSEC the reader returns
\* nothing at all, and no call of next fails.
EndsecInFront ==
    rd_input \in EndsecTexts =>
        /\ rd_items = <<>>
        /\ rd_pc \in {"start", "body", "done"}

\* A call of next: once the reader is at the end of the sequence, the call
\* returns None and the reader stays there; and ENDSEC in front of every
\* entry ends the stream without an entry and without an error.
NextAtEndsec ==
    /\ rd_pc = "done" => (rd_pc' = "done" /\ rd_items' = rd_items /\ rd_reader' = rd_reader)
    /\ rd_pc' = "done" => EndOfSequence'
    /\ EndsecInFront'
    /\ (rd_pc = "body" /\ rd_input \in EndsecTexts) => rd_pc' = "done"

\* C23: when the reader observes ENDSEC where an entry may begin, it
\* returns the end of the sequence without an error and is Done; from then
\* on every call of next returns None, and no entry behind the ENDSEC is
\* ever returned.  The text `ISO-10303-21; DATA; ENDSEC;` yields no entry
\* and no error.
C23_EndsecEndsStream == [][NextAtEndsec]_vars

\* The reader is at the end of the text that has an entry behind its
\* ENDSEC, and has returned nothing.
C23_Witness ==
    /\ rd_input = EntryBehindEndsecText
    /\ rd_pc = "done"
    /\ rd_reader.reached_end
    /\ rd_items = <<>>

\* The same for the text `ISO-10303-21; DATA; ENDSEC;`.
C23_WitnessEmptyData == rd_input = EmptyDataText /\ rd_pc = "done" /\ rd_items = <<>>

\* The longest prefix of the bytes that is valid UTF-8.
ValidPrefix(bytes) ==
    IF InvalidAt(bytes) = {} THEN bytes ELSE SubSeq(bytes, 1, valid_up_to(bytes))

\* The byte buffer of the reader, once the reader is built.
BufferInUse == rd_pc # "start"

\* The validated prefix is no longer than the bytes that the buffer holds.
C22_ViewWithinBuffer ==
    BufferInUse => rd_reader.reader.num_valid_utf8_bytes <= Len(rd_reader.reader.buffer.data)

\* The text view holds no part of a character without the rest of it.
C22_ViewExcludesIncomplete == BufferInUse => InvalidAt(as_str(rd_reader.reader)) = {}

\* C22: a multi-byte character that a refill has cut in two is left out of
\* the text view, and once the next refill has brought the rest of it, the
\* character and the valid bytes behind it are in the text view: after
\* every call the view is the longest valid prefix of the bytes held, and
\* never longer than these.
C22_ViewIsValidPrefix ==
    BufferInUse =>
        /\ rd_reader.reader.num_valid_utf8_bytes <= Len(rd_reader.reader.buffer.data)
        /\ as_str(rd_reader.reader) = ValidPrefix(rd_reader.reader.buffer.data)

\* The same for the texts that hold ASCII characters only.
C22_ViewIsValidPrefixAscii ==
    (BufferInUse /\ AsciiOnly) =>
        /\ rd_reader.reader.num_valid_utf8_bytes <= Len(rd_reader.reader.buffer.data)
        /\ as_str(rd_reader.reader) = ValidPrefix(rd_reader.reader.buffer.data)

RECURSIVE EveryRetryReads(_, _, _)
\* The loop of parse_element from the buffer br on: every retry whose
\* closure has failed reads at least one byte from the reader, or it fails
\* with EndOfInput on a reader that has no byte left.
EveryRetryReads(br, p, lenient) ==
    \/ Closure(p, TextView(as_str(br), lenient)).ok
    \/ grow(br).err = "EndOfInput" /\ br.reader.bytes = <<>>
    \/ /\ grow(br).err = ""
       /\ grow(br).br.reader.offset > br.reader.offset
       /\ EveryRetryReads(grow(br).br, p, lenient)

RECURSIVE Refills(_, _, _)
\* The number of times that the loop of parse_element calls grow from the
\* buffer br on.
Refills(br, p, lenient) ==
    IF Closure(p, TextView(as_str(br), lenient)).ok THEN 0
    ELSE IF grow(br).err # "" THEN 1
    ELSE 1 + Refills(grow(br).br, p, lenient)

\* One call of parse_element: its retries read or end, and there are at
\* most as many of them as the reader has bytes left, and one more.
ParseElementEnds(br, p, lenient) ==
    /\ EveryRetryReads(check_if_filled_enough(br).br, p, lenient)
    /\ Refills(check_if_filled_enough(br).br, p, lenient)
           <= Len(check_if_filled_enough(br).br.reader.bytes) + 1

\* The two calls of parse_element that STEPReader::new makes.
NewEnds(br, lenient) ==
    /\ ParseElementEnds(br, "parse_iso_line", lenient)
    /\ parse_element(br, "parse_iso_line", lenient).err = ""
           => ParseElementEnds(parse_element(br, "parse_iso_line", lenient).br,
                               "find_data_section", lenient)

\* The number of times that the buffer of the reader has grown.
Grown == rd_reader.reader.buffer.capacity \div BUFFER_SIZE_START

\* C30: every call of the constructor and of next of the logos reader
\* ends: each retry of the loop of parse_element reads at least one new
\* byte or fails with EndOfInput, so that the loop makes at most one retry
\* more than the input has bytes left, and the call has returned an entry,
\* the end of the sequence or an error.
C30_EveryCallEnds ==
    /\ rd_pc = "start"
           => \A lenient \in BOOLEAN :
                  NewEnds(BufferedReader_new(ByteReader(rd_input, rd_cuts)), lenient)
    /\ rd_pc \in {"body", "done"} /\ ~rd_reader.reached_end
           => \A lenient \in BOOLEAN :
                  ParseElementEnds(rd_reader.reader, "read_next_entry", lenient)
    /\ BufferInUse
           => /\ rd_reader.reader.reader.offset <= Len(rd_input)
              /\ rd_pc \in {"body", "done", "failed"}
              /\ rd_pc = "failed" <=> (rd_items # <<>> /\ rd_items[Len(rd_items)].kind = "err")

\* The constructor has grown the buffer twice, and next has returned an
\* entry.
C30_Witness ==
    /\ rd_pc = "body"
    /\ Len(rd_items) = 1
    /\ rd_items[1].kind = "entry"
    /\ Grown >= BUFFER_GROWTH_FACTOR * BUFFER_GROWTH_FACTOR

\* A call of next has ended with EndOfInput after a retry on the exhausted
\* reader.
C30_WitnessEndOfInput ==
    /\ rd_pc = "failed"
    /\ Len(rd_items) = 2
    /\ rd_items[2].err = "EndOfInput"
    /\ rd_reader.reader.reader.bytes = <<>>
    /\ Grown >= BUFFER_GROWTH_FACTOR

(***************************************************************************)
(* Specification of the BufferedIterator: an inner sequence is drawn from  *)
(* a bounded set and set_buffering_mode, reset and next are called in any  *)
(* order.  bi_hist records what a caller has observed: the items returned  *)
(* since the last set_buffering_mode (xs), the number of inner items that  *)
(* had been handed out when reset took effect (at), the items returned     *)
(* since then (ys), all items returned (out), whether the last call of     *)
(* next returned None (last) and whether reset has been called at all.     *)
(***************************************************************************)
MaxInner == 3
MaxIterCalls == 7

Item(i) == [ok |-> TRUE, entry |-> StepEntry(i, <<>>)]

InnerSequences == UNION {[1..n -> {Item(i) : i \in 1..MaxInner}] : n \in 0..MaxInner}

HistInit ==
    [phase |-> "through", xs |-> <<>>, taken |-> 0, at |-> 0, ys |-> <<>>,
     out |-> <<>>, last |-> "-", reset |-> FALSE]

BufferedInit ==
    /\ EntryIdle
    /\ WriterIdle
    /\ MergeIdle
    /\ PlainIdle
    /\ ReaderIdle
    /\ RootsIdle
    /\ bi_inner \in InnerSequences
    /\ bi_it = BufferedIterator_new(bi_inner)
    /\ bi_hist = HistInit
    /\ bi_calls = 0

SetBufferingMode ==
    /\ bi_calls < MaxIterCalls
    /\ bi_it' = set_buffering_mode(bi_it)
    /\ bi_hist' = [bi_hist EXCEPT !.phase = "filling", !.xs = <<>>, !.ys = <<>>,
                                  !.last = "-"]
    /\ bi_calls' = bi_calls + 1
    /\ UNCHANGED bi_inner
    /\ UNCHANGED NotBuffered

Reset ==
    /\ bi_calls < MaxIterCalls
    /\ bi_it' = reset(bi_it)
    /\ bi_hist' = IF bi_hist.phase = "filling"
                  THEN [bi_hist EXCEPT !.phase = "replay", !.at = bi_hist.taken,
                                       !.ys = <<>>, !.last = "-", !.reset = TRUE]
                  ELSE [bi_hist EXCEPT !.reset = TRUE]
    /\ bi_calls' = bi_calls + 1
    /\ UNCHANGED bi_inner
    /\ UNCHANGED NotBuffered

\* What the caller notes after a call of next that returned `some` / item.
\* An item returned during the replay of xs is not a new inner item.
Observed(h, some, item) ==
    IF ~some THEN [h EXCEPT !.last = "none"]
    ELSE [h EXCEPT !.last = "some",
                   !.out = Append(@, item),
                   !.xs = IF h.phase = "filling" THEN Append(@, item) ELSE @,
                   !.ys = IF h.phase = "replay" THEN Append(@, item) ELSE @,
                   !.taken = IF h.phase = "replay" /\ Len(h.ys) < Len(h.xs)
                             THEN @ ELSE @ + 1]

IterNextDone(r) ==
    /\ bi_it' = r.it
    /\ bi_hist' = Observed(bi_hist, r.some, r.item)

IterNext ==
    /\ bi_calls < MaxIterCalls
    /\ IterNextDone(BufferedIterator_next(bi_it))
    /\ bi_calls' = bi_calls + 1
    /\ UNCHANGED bi_inner
    /\ UNCHANGED NotBuffered

BufferedNext == SetBufferingMode \/ Reset \/ IterNext

SpecBuffered == BufferedInit /\ [][BufferedNext]_vars

(***************************************************************************)
(* Claims about the BufferedIterator.                                      *)
(***************************************************************************)
\* The items a caller is to see after reset: x1..xk, then the inner items
\* that had not been read when reset was called.
ReplayExpected(h, inner) == h.xs \o SubSeq(inner, h.at + 1, Len(inner))

\* C12: after set_buffering_mode, k calls of next returning x1..xk and
\* reset, the following calls of next return x1..xk in that order, then the
\* inner items not read so far, each once and in order, then None; items
\* read before set_buffering_mode are not replayed; and as long as reset
\* has not been called the iterator returns the inner sequence unchanged.
C12_ReplayThenResume ==
    /\ bi_hist.phase = "replay" =>
          /\ IsPrefix(bi_hist.ys, ReplayExpected(bi_hist, bi_inner))
          /\ bi_hist.last = "none" => bi_hist.ys = ReplayExpected(bi_hist, bi_inner)
    /\ (bi_calls > 0 /\ ~bi_hist.reset) =>
          /\ IsPrefix(bi_hist.out, bi_inner)
          /\ bi_hist.last = "none" => bi_hist.out = bi_inner

\* An item was read before set_buffering_mode, one item was read in
\* buffering mode, and after reset the replay and the rest of the inner
\* sequence have been read up to None.
C12_Witness ==
    /\ bi_hist.phase = "replay"
    /\ bi_hist.last = "none"
    /\ Len(bi_hist.xs) >= 1
    /\ bi_hist.at > Len(bi_hist.xs)
    /\ Len(bi_hist.ys) > Len(bi_hist.xs)
    /\ bi_hist.xs[1] # bi_inner[1]

\* The number of items that have been pulled from the inner iterator.
Pulled == Len(bi_inner) - Len(bi_it.iterator)

\* The items of the inner sequence are pairwise distinct, so that an item
\* that next returns tells which inner item it is.
InnerDistinct == \A i, j \in 1..Len(bi_inner) : bi_inner[i] = bi_inner[j] => i = j

\* The first call of next that returned the item.
FirstReturn(item) ==
    CHOOSE j \in 1..Len(bi_hist.out) :
        bi_hist.out[j] = item /\ \A k \in 1..(j - 1) : bi_hist.out[k] # item

\* C27: whatever the order of the calls of set_buffering_mode, reset and
\* next, every item pulled from the inner iterator has been returned by
\* next at least once, the items are returned in inner order (an item
\* comes for the first time after all inner items in front of it), and
\* next returns nothing but pulled items.
C27_NoItemDropped ==
    InnerDistinct =>
        /\ \A i \in 1..Pulled : \E j \in 1..Len(bi_hist.out) : bi_hist.out[j] = bi_inner[i]
        /\ \A i, k \in 1..Pulled :
              i < k => FirstReturn(bi_inner[i]) < FirstReturn(bi_inner[k])
        /\ \A j \in 1..Len(bi_hist.out) : \E i \in 1..Pulled : bi_hist.out[j] = bi_inner[i]

\* set_buffering_mode was called in the middle of a replay: of the two
\* buffered items only the first one has been replayed before the third
\* inner item was pulled.
C27_Witness ==
    /\ InnerDistinct
    /\ Pulled = 3
    /\ Len(bi_hist.out) = 4
    /\ bi_hist.out = <<bi_inner[1], bi_inner[2], bi_inner[1], bi_inner[3]>>

(***************************************************************************)
(* Specification of the root finder: a stream of entries with distinct ids *)
(* is drawn from a bounded set, every entry is passed to add_entry in      *)
(* stream order and get_root_nodes is called at the end.                   *)
(***************************************************************************)
MaxStream == 4

\* The id of the entry at position i of a stream.
StreamId(i) == 10 + i

ProductDefinitionShapeText(refs) ==
    <<"PRODUCT_DEFINITION_SHAPE", "(", "'", "'", ",$">> \o refs \o <<")">>

ShapeDefinitionRepresentationText(refs) ==
    <<"SHAPE_DEFINITION_REPRESENTATION", "(">> \o refs \o <<")">>

NextAssemblyUsageOccurrenceText(refs) ==
    <<"NEXT_ASSEMBLY_USAGE_OCCURRENCE", "(", "'", "'", ",", "'", "'">> \o refs

\* The definitions a stream is made of: well-formed entries of the four
\* kinds the root finder looks at, entries with too few or too many
\* references, and an entry whose text ends with its last reference.
StreamDefinitions ==
    {ProductDefinitionShapeText(<<",">> \o Ref(1)),
     ProductDefinitionShapeText(<<",">> \o Ref(2)),
     ProductDefinitionShapeText(<<>>),
     ShapeDefinitionRepresentationText(Ref(StreamId(1)) \o <<",">> \o Ref(8)),
     ShapeDefinitionRepresentationText(Ref(StreamId(1)) \o <<",">> \o Ref(9)),
     ShapeDefinitionRepresentationText(Ref(StreamId(2)) \o <<",">> \o Ref(9)),
     ShapeDefinitionRepresentationText(Ref(StreamId(1))),
     NextAssemblyUsageOccurrenceText(<<",">> \o Ref(1) \o <<",">> \o Ref(2) \o <<",$)">>),
     NextAssemblyUsageOccurrenceText(<<",">> \o Ref(2) \o <<",">> \o Ref(1) \o <<",$)">>),
     NextAssemblyUsageOccurrenceText(<<",">> \o Ref(1) \o <<",">> \o Ref(2) \o <<",">>
                                       \o Ref(3) \o <<")">>),
     NextAssemblyUsageOccurrenceText(<<",">> \o Ref(1) \o <<",">> \o Ref(2)),
     <<"PRODUCT_DEFINITION", "(", "'", "'", ",">> \o Ref(3) \o <<")">>}

\* The streams of at most `longest` entries.
Streams(longest) ==
    UNION {{[i \in 1..n |-> StepEntry(StreamId(i), d[i])] : d \in [1..n -> StreamDefinitions]} :
              n \in 0..longest}

RootsInit ==
    /\ EntryIdle
    /\ WriterIdle
    /\ MergeIdle
    /\ PlainIdle
    /\ ReaderIdle
    /\ BufferedIdle
    /\ fr_stream \in Streams(MaxStream)
    /\ fr_k = 0
    /\ fr_finder = FindRootNodes_new
    /\ fr_roots = <<>>
    /\ fr_pc = "adding"

AddEntry ==
    /\ fr_pc = "adding"
    /\ fr_k < Len(fr_stream)
    /\ fr_finder' = FindRootNodes_add_entry(fr_finder, fr_stream[fr_k + 1])
    /\ fr_k' = fr_k + 1
    /\ UNCHANGED <<fr_stream, fr_roots, fr_pc>>
    /\ UNCHANGED NotRoots

GetRootNodes ==
    /\ fr_pc = "adding"
    /\ fr_k = Len(fr_stream)
    /\ fr_roots' = get_root_nodes(fr_finder)
    /\ fr_pc' = "done"
    /\ UNCHANGED <<fr_stream, fr_k, fr_finder>>
    /\ UNCHANGED NotRoots

RootsNext == AddEntry \/ GetRootNodes

SpecRoots == RootsInit /\ [][RootsNext]_vars

(***************************************************************************)
(* Claims about the root finder.                                           *)
(***************************************************************************)
IsOccurrence(entry) ==
    entry.definition # <<>> /\ Head(entry.definition) = "NEXT_ASSEMBLY_USAGE_OCCURRENCE"

\* The ids that stand as the second reference of an occurrence entry.
SecondReferences(stream) ==
    {ReferencesByText(stream[j].definition, 1, FALSE)[2] :
        j \in {i \in 1..Len(stream) :
                  /\ IsOccurrence(stream[i])
                  /\ Len(ReferencesByText(stream[i].definition, 1, FALSE)) >= 2}}

\* C13: no product definition id returned by get_root_nodes is the second
\* reference of a NEXT_ASSEMBLY_USAGE_OCCURRENCE entry of the stream.
C13_RootIndependence ==
    fr_pc = "done" =>
        \A i \in 1..Len(fr_roots) :
            fr_roots[i].product_definition_id \notin SecondReferences(fr_stream)

\* Every occurrence entry of the stream has exactly two references and does
\* not end with one.
OccurrencesWellFormed(stream) ==
    \A j \in 1..Len(stream) :
        IsOccurrence(stream[j]) =>
            /\ Len(ReferencesByText(stream[j].definition, 1, FALSE)) = 2
            /\ ~EndsWithReference(stream[j].definition)

C13_RootIndependenceWellFormed ==
    (fr_pc = "done" /\ OccurrencesWellFormed(fr_stream)) =>
        \A i \in 1..Len(fr_roots) :
            fr_roots[i].product_definition_id \notin SecondReferences(fr_stream)

\* The references of an entry and its kind, as add_entry reads them.
EntryReferences(entry) == get_references(entry).refs

IsKind(entry, keyword) == extract_keyword(entry.definition) = <<keyword>>

\* The product definition has a has-parent marker: an occurrence entry with
\* two references names it as its second one.
HasParentMarker(stream, prod_def_id) ==
    \E j \in 1..Len(stream) :
        /\ IsKind(stream[j], "NEXT_ASSEMBLY_USAGE_OCCURRENCE")
        /\ Len(EntryReferences(stream[j])) = 2
        /\ EntryReferences(stream[j])[2] = prod_def_id

\* The positions of the SHAPE_DEFINITION_REPRESENTATION entries that link
\* the product definition shape to a shape representation.
RepresentationsOf(stream, prod_def_shape_id) ==
    {j \in 1..Len(stream) :
        /\ IsKind(stream[j], "SHAPE_DEFINITION_REPRESENTATION")
        /\ Len(EntryReferences(stream[j])) = 2
        /\ EntryReferences(stream[j])[1] = prod_def_shape_id}

\* The greatest element of a non-empty set of positions.
Latest(S) == CHOOSE j \in S : \A k \in S : k <= j

\* The root node that the entry at position i of the stream stands for, as
\* a list of at most one element.
ExpectedRootAt(stream, i) ==
    IF /\ IsKind(stream[i], "PRODUCT_DEFINITION_SHAPE")
       /\ EntryReferences(stream[i]) # <<>>
       /\ ~HasParentMarker(stream, EntryReferences(stream[i])[Len(EntryReferences(stream[i]))])
       /\ RepresentationsOf(stream, stream[i].id) # {}
    THEN <<NodeStepIds(EntryReferences(stream[i])[Len(EntryReferences(stream[i]))],
                       EntryReferences(stream[Latest(RepresentationsOf(stream, stream[i].id))])[2])>>
    ELSE <<>>

RECURSIVE ExpectedRoots(_, _)
ExpectedRoots(stream, i) ==
    IF i > Len(stream) THEN <<>>
    ELSE ExpectedRootAt(stream, i) \o ExpectedRoots(stream, i + 1)

C14_LeftOut ==
    /\ fr_pc = "done"
    /\ fr_roots = <<>>
    /\ Len(fr_finder.prod_def_to_prod_def_shape) = 2
    /\ fr_finder.prod_def_assembly_occurrences # {}
    /\ fr_finder.prod_def_shape_to_shape_def_rep # {}
====
